---- MODULE Spec2Model ----
(***************************************************************************)
(* Finite-fault discretization and linear Green's-function library of      *)
(* beat (src/src/ffi.py): FaultOrdering, FaultGeometry, discretize_sources *)
(* and SeismicGFLibrary, as state machines.                                *)
(*                                                                         *)
(*   SpecFault : construction of fault orderings / geometries and lookups  *)
(*   Spec      : life cycle of one SeismicGFLibrary                        *)
(*   SpecResetup : the life cycle with one more setup                      *)
(*   SpecPut   : two threads calling put on one sized library              *)
(*   SpecSolver : calls of the rupture-time solver                         *)
(*   SpecConstruct : construction of the GF libraries of a fault           *)
(*   SpecRunner : one call of PsGrnRunner.run (src/src/psgrn.py)           *)
(***************************************************************************)
EXTENDS Integers, Sequences, FiniteSets, TLC

VARIABLES
    fault,      \* the FaultGeometry object, or None before construction
    fin,        \* the constructing call: its arguments and outcome
    fcall,      \* the call on the fault whose result the caller holds
    lib,        \* the fields of one SeismicGFLibrary object
    heap,       \* the arrays alive in the process, by reference
    floatX,     \* theano's config.floatX
    call,       \* the call whose result the caller holds: arguments, outcome
    known,      \* the caller's record of the batch it put last
    budget,     \* calls of setup, init_optimization and put still allowed
    threads,    \* the put calls two threads are making: arguments, position
    solver,     \* the rupture-time solver call in progress: grid, position
    build,      \* the construct_gf_linear call: arguments, position, outcome
    files,      \* the files the program looks for and writes
    runner      \* the PsGrnRunner.run call in progress and its process

faultvars == <<fault, fin, fcall>>

libvars == <<lib, heap, floatX, call, known, budget, threads>>

envvars == <<solver, build, files, runner>>

vars ==
    <<fault, fin, fcall, lib, heap, floatX, call, known, budget, threads,
      solver, build, files, runner>>

None == [none |-> TRUE]

\* the outcome of a call: a returned value or a raised exception
Ret(v) == [value |-> v]

Raised(kind) == [raised |-> kind]

Failed(ret) == "raised" \in DOMAIN ret

Min(a, b) == IF a < b THEN a ELSE b

RECURSIVE SumSeq(_)
SumSeq(s) == IF s = <<>> THEN 0 ELSE Head(s) + SumSeq(Tail(s))

Range(s) == {s[k] : k \in 1..Len(s)}

\* all sequences over S of length 0..n
SeqsUpTo(S, n) == UNION {[1..k -> S] : k \in 0..n}

(***************************************************************************)
(* Bounds of the fault model                                               *)
(***************************************************************************)
MaxSubfaults == 2       \* subfaults (reference sources) per fault
MaxCount == 2           \* patches per axis given to FaultOrdering directly

\* extended source dimensions and target patch dimensions (same unit)
Lengths == {5, 14, 23}
Widths == {7, 10}
PatchDims == {5, 7}
Rakes == {0, 30}

DatatypeLists == {<<"geodetic">>, <<"seismic">>, <<"geodetic", "seismic">>}
VarnameLists == {<<"Uparr">>, <<"Uparr", "Uperp">>, <<"Utensile">>}

(***************************************************************************)
(* slip_directions                                                         *)
(***************************************************************************)
slip_directions ==
    [Uparr    |-> [slip |-> 1, rake |-> 0],
     Uperp    |-> [slip |-> 1, rake |-> -90],
     Utensile |-> [slip |-> 0, rake |-> 0, opening |-> 1]]

(***************************************************************************)
(* FaultOrdering                                                           *)
(***************************************************************************)
PatchMap(count, slc, shp, npatches) ==
    [count |-> count, slc |-> slc, shp |-> shp, npatches |-> npatches]

\* mutant: the patch count of a subfault taken as the sum of its axes
PatchCountSum(npl, npw) == npl + npw

\* npatches = npl * npw
PatchCount(npl, npw) == npl * npw

\* slice(dim, dim + npatches), as <<start, stop>>
Slice(dim, npatches) == <<dim, dim + npatches>>

\* the loop over zip(npls, npws): stops at the shorter list
RECURSIVE OrderingLoop(_, _, _, _, _)
OrderingLoop(npls, npws, k, vmap, dim) ==
    IF k > Min(Len(npls), Len(npws))
    THEN [vmap |-> vmap, npatches |-> dim]
    ELSE LET npatches == PatchCount(npls[k], npws[k])
             slc == Slice(dim, npatches)
             shp == <<npws[k], npls[k]>>
         IN  OrderingLoop(npls, npws, k + 1,
                          Append(vmap, PatchMap(k - 1, slc, shp, npatches)),
                          dim + npatches)

FaultOrdering(npls, npws) == OrderingLoop(npls, npws, 1, <<>>, 0)

(***************************************************************************)
(* FaultGeometry                                                           *)
(***************************************************************************)
InList(x, list) == \E k \in 1..Len(list) : list[k] = x

FaultGeometry(datatypes, components, ordering) ==
    [datatypes |-> datatypes, components |-> components,
     ext_sources |-> <<>>, ordering |-> ordering]

nsubfaults(f) == Len(f.ordering.vmap)

nsubpatches(f) == f.ordering.npatches

\* _check_datatype, _check_component, _check_index: TRUE when the check
\* passes, FALSE when it raises TypeError
check_datatype(f, datatype) == InList(datatype, f.datatypes)

check_component(f, component) == InList(component, f.components)

check_index(f, index) == ~(index > nsubfaults(f) - 1)

\* the key datatype + '_' + component + '_' + str(index), or the exception
get_subfault_key(f, index, datatype, component) ==
    IF ~check_datatype(f, datatype) THEN Raised("TypeError")
    ELSE IF ~check_component(f, component) THEN Raised("TypeError")
    ELSE IF ~check_index(f, index) THEN Raised("TypeError")
    ELSE Ret(<<datatype, component, index>>)

\* python list indexing list[index]: negative indexes count from the end
ListIndex(list, index) ==
    IF index >= 0 /\ index < Len(list) THEN Ret(list[index + 1])
    ELSE IF index < 0 /\ -index <= Len(list)
         THEN Ret(list[Len(list) + index + 1])
    ELSE Raised("IndexError")

get_patch_indexes(f, index) ==
    IF ~check_index(f, index) THEN Raised("TypeError")
    ELSE LET pm == ListIndex(f.ordering.vmap, index)
         IN  IF Failed(pm) THEN pm ELSE Ret(pm.value.slc)

\* the loop of setup_subfaults over enumerate(ext_sources), from position i
\* (0-based); yields the store and the exception that ended the loop, if any
RECURSIVE SetupLoop(_, _, _, _, _, _, _)
SetupLoop(f, store, datatype, component, ext_sources, i, replace) ==
    IF i >= Len(ext_sources) THEN [store |-> store, exc |-> None]
    ELSE LET source_key == get_subfault_key(f, i, datatype, component)
         IN  IF Failed(source_key) THEN [store |-> store, exc |-> source_key]
             ELSE IF source_key.value \notin DOMAIN store \/ replace
             THEN SetupLoop(f,
                      [k \in DOMAIN store \cup {source_key.value} |->
                          IF k = source_key.value THEN ext_sources[i + 1]
                          ELSE store[k]],
                      datatype, component, ext_sources, i + 1, replace)
             ELSE [store |-> store, exc |-> Raised("FaultGeometryError")]

\* mutant: setup_subfaults that overwrites whatever replace says
setup_subfaults_overwrite(f, datatype, component, ext_sources, replace) ==
    IF ~check_datatype(f, datatype)
    THEN [fault |-> f, exc |-> Raised("TypeError")]
    ELSE IF ~check_component(f, component)
    THEN [fault |-> f, exc |-> Raised("TypeError")]
    ELSE IF Len(ext_sources) # nsubfaults(f)
    THEN [fault |-> f, exc |-> Raised("FaultGeometryError")]
    ELSE LET r == SetupLoop(f, f.ext_sources, datatype, component,
                            ext_sources, 0, TRUE)
         IN  [fault |-> [f EXCEPT !.ext_sources = r.store], exc |-> r.exc]

\* mutant: setup_subfaults without the comparison of len(ext_sources) and
\* nsubfaults
setup_subfaults_any_length(f, datatype, component, ext_sources, replace) ==
    IF ~check_datatype(f, datatype)
    THEN [fault |-> f, exc |-> Raised("TypeError")]
    ELSE IF ~check_component(f, component)
    THEN [fault |-> f, exc |-> Raised("TypeError")]
    ELSE LET r == SetupLoop(f, f.ext_sources, datatype, component,
                            ext_sources, 0, replace)
         IN  [fault |-> [f EXCEPT !.ext_sources = r.store], exc |-> r.exc]

\* setup_subfaults: the fault afterwards and the exception raised, if any
setup_subfaults(f, datatype, component, ext_sources, replace) ==
    IF ~check_datatype(f, datatype)
    THEN [fault |-> f, exc |-> Raised("TypeError")]
    ELSE IF ~check_component(f, component)
    THEN [fault |-> f, exc |-> Raised("TypeError")]
    ELSE IF Len(ext_sources) # nsubfaults(f)
    THEN [fault |-> f, exc |-> Raised("FaultGeometryError")]
    ELSE LET r == SetupLoop(f, f.ext_sources, datatype, component,
                            ext_sources, 0, replace)
         IN  [fault |-> [f EXCEPT !.ext_sources = r.store], exc |-> r.exc]

\* get_subfault: the registered source, or the exception
get_subfault(f, index, datatype, component) ==
    LET source_key == get_subfault_key(f, index, datatype, component)
    IN  IF Failed(source_key) THEN source_key
        ELSE IF source_key.value \in DOMAIN f.ext_sources
        THEN Ret(f.ext_sources[source_key.value])
        ELSE Raised("FaultGeometryError")

\* subfault.patches(nl, nw, datatype) of the source class: the nl * nw
\* patches of the extended source, each knowing its parent and position
patches(subfault, nl, nw, datatype) ==
    [k \in 1..nl * nw |->
        [parent |-> subfault, nl |-> nl, nw |-> nw, pos |-> k - 1,
         datatype |-> datatype]]

get_subfault_patches(f, index, datatype, component) ==
    IF ~check_index(f, index) THEN Raised("TypeError")
    ELSE LET subfault == get_subfault(f, index, datatype, component)
             pm == ListIndex(f.ordering.vmap, index)
         IN  IF Failed(subfault) THEN subfault
             ELSE IF Failed(pm) THEN pm
             ELSE Ret(patches(subfault.value, pm.value.shp[2],
                              pm.value.shp[1], datatype))

\* mutant: the loop of get_all_patches putting the patches of each
\* subfault in front of the ones collected so far
RECURSIVE AllPatchesLoopPrepend(_, _, _, _, _)
AllPatchesLoopPrepend(f, datatype, component, i, acc) ==
    IF i >= nsubfaults(f) THEN Ret(acc)
    ELSE LET r == get_subfault_patches(f, i, datatype, component)
         IN  IF Failed(r) THEN r
             ELSE AllPatchesLoopPrepend(f, datatype, component, i + 1,
                                        r.value \o acc)

\* the loop of get_all_patches over range(nsubfaults), from subfault i
RECURSIVE AllPatchesLoop(_, _, _, _, _)
AllPatchesLoop(f, datatype, component, i, acc) ==
    IF i >= nsubfaults(f) THEN Ret(acc)
    ELSE LET r == get_subfault_patches(f, i, datatype, component)
         IN  IF Failed(r) THEN r
             ELSE AllPatchesLoop(f, datatype, component, i + 1,
                                 acc \o r.value)

get_all_patches(f, datatype, component) ==
    AllPatchesLoop(f, datatype, component, 0, <<>>)

(***************************************************************************)
(* discretize_sources                                                      *)
(***************************************************************************)
\* A reference source as discretize_sources sees it.  extent_source belongs
\* to the source class (an external collaborator); ext_length and ext_width
\* are the dimensions of the extended source it returns for this source.
RefSources ==
    [ext_length : Lengths, ext_width : Widths, rake : Rakes,
     slip : {1}, opening : {0}]

extent_source(s) ==
    [length |-> s.ext_length, width |-> s.ext_width, rake |-> s.rake,
     slip |-> s.slip, opening |-> s.opening]

\* mutant: floor division in place of the ceiling
FloorDiv(dimension, patch_dimension) == dimension \div patch_dimension

\* int(num.ceil(dimension / patch_dimension)), for positive dimensions
CeilDiv(dimension, patch_dimension) ==
    (dimension + patch_dimension - 1) \div patch_dimension

\* s.update(**param_mod): every key of param_mod overwrites the attribute
update(s, param_mod) ==
    [a \in DOMAIN s |-> IF a \in DOMAIN param_mod THEN param_mod[a] ELSE s[a]]

\* the loop over sources for one slip component, from position k (1-based):
\* param_mod is the one dictionary copied before the loop
RECURSIVE SourceLoop(_, _, _, _)
SourceLoop(sources, k, param_mod, ext_sources) ==
    IF k > Len(sources) THEN ext_sources
    ELSE LET pm == [param_mod EXCEPT !.rake = @ + sources[k].rake]
             s == update(sources[k], pm)
         IN  SourceLoop(sources, k + 1, pm,
                        Append(ext_sources, extent_source(s)))

\* the loops over datatypes (d) and varnames (v), 1-based positions
RECURSIVE VarLoop(_, _, _, _, _)
VarLoop(f, sources, datatypes, d, v) ==
    IF d > Len(datatypes) THEN [fault |-> f, exc |-> None]
    ELSE IF v > Len(f.components)
    THEN VarLoop(f, sources, datatypes, d + 1, 1)
    ELSE LET var == f.components[v]
             ext_sources ==
                 SourceLoop(sources, 1, slip_directions[var], <<>>)
             r == setup_subfaults(f, datatypes[d], var, ext_sources, FALSE)
         IN  IF r.exc # None THEN [fault |-> None, exc |-> r.exc]
             ELSE VarLoop(r.fault, sources, datatypes, d, v + 1)

npls_of(sources, patch_length) ==
    [i \in 1..Len(sources) |->
        CeilDiv(extent_source(sources[i]).length, patch_length)]

npws_of(sources, patch_width) ==
    [i \in 1..Len(sources) |->
        CeilDiv(extent_source(sources[i]).width, patch_width)]

\* 'seismic' in datatypes and nsources > 1
TooManySources(datatypes, nsources) ==
    InList("seismic", datatypes) /\ nsources > 1

\* 'seismic' in datatypes and patch_length != patch_width
NotSquare(datatypes, patch_length, patch_width) ==
    InList("seismic", datatypes) /\ patch_length # patch_width

\* the fault returned and the exception raised, if any
discretize_sources(sources, patch_width, patch_length, datatypes, varnames) ==
    IF NotSquare(datatypes, patch_length, patch_width)
    THEN [fault |-> None, exc |-> Raised("ValueError")]
    ELSE IF TooManySources(datatypes, Len(sources))
    THEN [fault |-> None, exc |-> Raised("ValueError")]
    ELSE LET ordering == FaultOrdering(npls_of(sources, patch_length),
                                       npws_of(sources, patch_width))
         IN  VarLoop(FaultGeometry(datatypes, varnames, ordering),
                     sources, datatypes, 1, 1)

(***************************************************************************)
(* The fault state machine                                                 *)
(***************************************************************************)
\* no construction and no psgrn run is going on
NoEnv ==
    /\ solver = None
    /\ build = None
    /\ files = None
    /\ runner = None

NoFault ==
    /\ fault = None
    /\ fin = None
    /\ fcall = None

NoLibrary ==
    /\ lib = None
    /\ heap = <<>>
    /\ floatX = "float64"
    /\ call = None
    /\ known = None
    /\ budget = None
    /\ threads = <<>>

InitFault == NoFault /\ NoLibrary /\ NoEnv

\* FaultGeometry(datatypes, components, FaultOrdering(npls, npws))
NewFaultGeometry ==
    /\ fin = None
    /\ \E npls \in SeqsUpTo(1..MaxCount, MaxSubfaults),
          npws \in SeqsUpTo(1..MaxCount, MaxSubfaults),
          datatypes \in DatatypeLists, components \in VarnameLists :
          /\ fault' = FaultGeometry(datatypes, components,
                                    FaultOrdering(npls, npws))
          /\ fin' = [op |-> "FaultOrdering", npls |-> npls, npws |-> npws,
                     ret |-> Ret("FaultOrdering")]
    /\ UNCHANGED <<fcall, libvars, envvars>>

DiscretizeSources ==
    /\ fin = None
    /\ \E sources \in SeqsUpTo(RefSources, MaxSubfaults),
          patch_width \in PatchDims, patch_length \in PatchDims,
          datatypes \in DatatypeLists, varnames \in VarnameLists :
          LET r == discretize_sources(sources, patch_width, patch_length,
                                      datatypes, varnames)
          IN  /\ fault' = r.fault
              /\ fin' = [op |-> "discretize_sources", sources |-> sources,
                         patch_width |-> patch_width,
                         patch_length |-> patch_length,
                         datatypes |-> datatypes, varnames |-> varnames,
                         npls |-> npls_of(sources, patch_length),
                         npws |-> npws_of(sources, patch_width),
                         ret |-> IF r.exc # None THEN r.exc
                                 ELSE Ret("FaultGeometry")]
    /\ UNCHANGED <<fcall, libvars, envvars>>

\* a lookup or a registration is made once the caller has taken the
\* result of the previous one
GetPatchIndexes ==
    /\ fault # None
    /\ fcall = None
    /\ \E index \in -1..MaxSubfaults :
          fcall' = [op |-> "get_patch_indexes", index |-> index,
                    ret |-> get_patch_indexes(fault, index)]
    /\ UNCHANGED <<fault, fin, libvars, envvars>>

\* the extended sources a caller registers by hand: subfault i has its own
\* length, a list has one rake
ExtSource(i, rake) ==
    [length |-> 5 * i, width |-> 7, rake |-> rake, slip |-> 1, opening |-> 0]

SourceLists ==
    {[i \in 1..n |-> ExtSource(i, rake)] :
        n \in 0..MaxSubfaults + 1, rake \in Rakes}

\* the (datatype, component) pairs callers ask for
AskedDatatypes == {"geodetic", "seismic"}

AskedComponents == {"Uparr", "Uperp"}

\* registration by hand, on a geometry that was built by hand
SetupSubfaults ==
    /\ fault # None
    /\ fcall = None
    /\ fin.op = "FaultOrdering"
    /\ \E datatype \in AskedDatatypes, component \in AskedComponents,
          ext_sources \in SourceLists, replace \in BOOLEAN :
          LET r == setup_subfaults(fault, datatype, component, ext_sources,
                                   replace)
          IN  /\ fault' = r.fault
              /\ fcall' = [op |-> "setup_subfaults", datatype |-> datatype,
                           component |-> component,
                           ext_sources |-> ext_sources, replace |-> replace,
                           ret |-> IF r.exc # None THEN r.exc
                                   ELSE Ret(None)]
    /\ UNCHANGED <<fin, libvars, envvars>>

GetSubfault ==
    /\ fault # None
    /\ fcall = None
    /\ \E index \in -1..MaxSubfaults, datatype \in AskedDatatypes,
          component \in AskedComponents :
          fcall' = [op |-> "get_subfault", index |-> index,
                    datatype |-> datatype, component |-> component,
                    ret |-> get_subfault(fault, index, datatype, component)]
    /\ UNCHANGED <<fault, fin, libvars, envvars>>

GetAllPatches ==
    /\ fault # None
    /\ fcall = None
    /\ \E datatype \in AskedDatatypes, component \in AskedComponents :
          fcall' = [op |-> "get_all_patches", datatype |-> datatype,
                    component |-> component,
                    ret |-> get_all_patches(fault, datatype, component)]
    /\ UNCHANGED <<fault, fin, libvars, envvars>>

\* the caller takes the result of the last call on the fault
ReturnFault ==
    /\ fcall # None
    /\ fcall' = None
    /\ UNCHANGED <<fault, fin, libvars, envvars>>

NextFault ==
    \/ NewFaultGeometry
    \/ DiscretizeSources
    \/ GetPatchIndexes
    \/ SetupSubfaults
    \/ GetSubfault
    \/ GetAllPatches
    \/ ReturnFault

SpecFault == InitFault /\ [][NextFault]_vars

(***************************************************************************)
(* Bounds of the library model                                             *)
(***************************************************************************)
MaxTargets == 2         \* targets of the library; stations are 1..MaxTargets
MaxPatches == 2
MaxRisetimes == 2
MaxStarttimes == 1
MaxSamples == 2
MaxEntries == 2         \* rows of a batch, entries of the parallel index arrays
MaxSetups == 1          \* calls of setup in one behaviour
MaxInits == 1           \* calls of init_optimization in one behaviour
MaxPuts == 1            \* calls of put in one behaviour

TargetNames == <<"t0", "t1", "t2", "t3">>

Slips == {1, 2}

\* sample values of a batch: row k, column j holds base + 10 k + j; from
\* this base on, the odd values are not float32 numbers
Bases == {2^24}

(***************************************************************************)
(* Arrays                                                                  *)
(***************************************************************************)
NoRef == 0

IndexSet(shape) ==
    (0..shape[1] - 1) \X (0..shape[2] - 1) \X (0..shape[3] - 1)
        \X (0..shape[4] - 1) \X (0..shape[5] - 1)

\* num.zeros(shape)
zeros(shape) == [shape |-> shape, data |-> [ix \in IndexSet(shape) |-> 0]]

Product(shape) == shape[1] * shape[2] * shape[3] * shape[4] * shape[5]

RECURSIVE Pow2Above(_, _)
\* the least power of two p >= unit with v < 2^24 * p
Pow2Above(v, unit) == IF v < 16777216 * unit THEN unit ELSE Pow2Above(v, 2 * unit)

\* the float32 nearest to the integer v (24-bit significand, ties to even)
Round32(v) ==
    LET a == IF v < 0 THEN -v ELSE v
        ulp == Pow2Above(a, 1)
        q == a \div ulp
        rem == a % ulp
        up == 2 * rem > ulp \/ (2 * rem = ulp /\ q % 2 = 1)
        r == (IF up THEN q + 1 ELSE q) * ulp
    IN  IF v < 0 THEN -r ELSE r

\* a value stored with dtype (float64 holds every integer of the model)
Cast(dtype, v) == IF dtype = "float32" THEN Round32(v) ELSE v

\* array.astype(dtype): a new array
astype(arr, dtype) ==
    [shape |-> arr.shape,
     data |-> [ix \in DOMAIN arr.data |-> Cast(dtype, arr.data[ix])]]

\* num.arange(n, dtype='int16')
Int16(v) == ((v + 32768) % 65536) - 32768

arange16(n) == [k \in 1..n |-> Int16(k - 1)]

\* the least reference not in use
NewRef(h) == CHOOSE r \in 1..(Cardinality(DOMAIN h) + 1) : r \notin DOMAIN h

\* references held by the library object
Held(l) ==
    ({l.gfmatrix, l.sgfmatrix}
        \cup (IF l.stack_switch = None THEN {}
              ELSE {l.stack_switch.numpy, l.stack_switch.theano}))
    \ {NoRef}

\* arrays no longer referenced are freed
Collect(h, l) == [r \in DOMAIN h \cap Held(l) |-> h[r]]

(***************************************************************************)
(* SeismicGFLibrary                                                        *)
(***************************************************************************)
\* __init__(component, event, targets, stations); no _stack_switch attribute
\* is created here (stack_switch = None stands for the missing attribute)
NewLibrary(targets, nstations) ==
    [targets |-> targets, nstations |-> nstations,
     patchidxs |-> None, gfmatrix |-> NoRef, sgfmatrix |-> NoRef,
     mode |-> "numpy", target2index |-> None, stack_switch |-> None]

\* dict((target, i) for (i, target) in enumerate(self.targets))
TargetDict(targets) ==
    [t \in {targets[k] : k \in 1..Len(targets)} |->
        (CHOOSE k \in 1..Len(targets) :
            targets[k] = t /\ \A m \in k + 1..Len(targets) : targets[m] # t)
        - 1]

\* target_index_mapping: the library afterwards (the dictionary is cached)
target_index_mapping(l) ==
    IF l.target2index = None
    THEN [l EXCEPT !.target2index = TargetDict(l.targets)]
    ELSE l

\* _check_setup: TRUE when it passes, FALSE when it raises GFLibraryError
check_setup(l) == l.gfmatrix # NoRef

\* the shape properties; meaningful when check_setup passes
Shape(l, h) == h[l.gfmatrix].shape

\* mutant: ntargets read from the patch axis
ntargets_patchaxis(l, h) ==
    IF ~check_setup(l) THEN Raised("GFLibraryError") ELSE Ret(Shape(l, h)[2])

ntargets(l, h) ==
    IF ~check_setup(l) THEN Raised("GFLibraryError") ELSE Ret(Shape(l, h)[1])

npatches(l, h) ==
    IF ~check_setup(l) THEN Raised("GFLibraryError") ELSE Ret(Shape(l, h)[2])

nrisetimes(l, h) ==
    IF ~check_setup(l) THEN Raised("GFLibraryError") ELSE Ret(Shape(l, h)[3])

nstarttimes(l, h) ==
    IF ~check_setup(l) THEN Raised("GFLibraryError") ELSE Ret(Shape(l, h)[4])

nsamples(l, h) ==
    IF ~check_setup(l) THEN Raised("GFLibraryError") ELSE Ret(Shape(l, h)[5])

\* size reads self._gfmatrix.size without _check_setup: on None the
\* attribute access raises AttributeError
size(l, h) ==
    IF l.gfmatrix = NoRef THEN Raised("AttributeError")
    ELSE Ret(Product(Shape(l, h)))

\* filesize = size * 8 / (1024. * 1024.), kept as the number of bytes
filesize(l, h) ==
    IF Failed(size(l, h)) THEN size(l, h) ELSE Ret(size(l, h).value * 8)

\* the outcome of a library method: the object and the heap afterwards and
\* the value returned or the exception raised
Outcome(l, h, ret) == [lib |-> l, heap |-> Collect(h, l), ret |-> ret]

\* mutant: setup that allocates before it compares ntargets and nstations
setup_alloc_first(l, h, nt, np, nr, ns, nsamp) ==
    LET ref == NewRef(h)
        l1 == [l EXCEPT !.gfmatrix = ref,
                        !.patchidxs = [arr |-> arange16(np)]]
        h1 == [r \in DOMAIN h \cup {ref} |->
                  IF r = ref THEN zeros(<<nt, np, nr, ns, nsamp>>) ELSE h[r]]
    IN  IF nt # l.nstations THEN Outcome(l1, h1, Raised("GFLibraryError"))
        ELSE Outcome(l1, h1, Ret(None))

setup(l, h, nt, np, nr, ns, nsamp) ==
    IF nt # l.nstations THEN Outcome(l, h, Raised("GFLibraryError"))
    ELSE LET ref == NewRef(h)
             l1 == [l EXCEPT !.gfmatrix = ref,
                             !.patchidxs = [arr |-> arange16(np)]]
             h1 == [r \in DOMAIN h \cup {ref} |->
                       IF r = ref THEN zeros(<<nt, np, nr, ns, nsamp>>)
                       ELSE h[r]]
         IN  Outcome(l1, h1, Ret(None))

\* mutant: set_stack_mode that stores the mode before it looks it up
set_stack_mode_store_first(l, h, mode) ==
    IF l.stack_switch = None
    THEN Outcome([l EXCEPT !.mode = mode], h, Raised("AttributeError"))
    ELSE IF mode \notin DOMAIN l.stack_switch
    THEN Outcome([l EXCEPT !.mode = mode], h, Raised("TypeError"))
    ELSE Outcome([l EXCEPT !.mode = mode], h, Ret(None))

\* set_stack_mode: the raise formats two '%s' with one string, so the
\* exception that leaves the method is TypeError
set_stack_mode(l, h, mode) ==
    IF l.stack_switch = None THEN Outcome(l, h, Raised("AttributeError"))
    ELSE IF mode \notin DOMAIN l.stack_switch
    THEN Outcome(l, h, Raised("TypeError"))
    ELSE Outcome([l EXCEPT !.mode = mode], h, Ret(None))

\* init_optimization: shared(self._gfmatrix.astype(floatX), borrow=True)
\* holds the copy astype made
init_optimization(l, h, dtype) ==
    IF l.gfmatrix = NoRef THEN Outcome(l, h, Raised("AttributeError"))
    ELSE LET ref == NewRef(h)
             h1 == [r \in DOMAIN h \cup {ref} |->
                       IF r = ref THEN astype(h[l.gfmatrix], dtype)
                       ELSE h[r]]
             l1 == [l EXCEPT !.sgfmatrix = ref,
                             !.stack_switch =
                                 [numpy |-> l.gfmatrix, theano |-> ref]]
         IN  set_stack_mode(l1, h1, "theano")

\* entries: a batch of rank ndim; a rank-2 batch has rows x cols values
EntryVal(entries, k, j) == entries.base + 10 * k + j

\* the common length of index arrays under numpy broadcasting, 0 if none
BroadcastLen(lens) ==
    LET n == CHOOSE m \in lens : \A x \in lens : x <= m
    IN  IF \A x \in lens : x = n \/ x = 1 THEN n ELSE 0

Bc(seq, k) == IF Len(seq) = 1 THEN seq[1] ELSE seq[k]

InAxis(arr, axis, i) == i >= 0 /\ i < arr.shape[axis]

\* mutant: the assignment with the patch index left out, which fills the
\* listed cells of every patch
SetItemEveryPatch(arr, tidx, patchidx, risetimeidxs, starttimeidxs, entries) ==
    LET n == BroadcastLen({Len(risetimeidxs), Len(starttimeidxs)})
    IN  IF n = 0 THEN Raised("IndexError")
        ELSE IF ~(/\ InAxis(arr, 1, tidx) /\ InAxis(arr, 2, patchidx)
                  /\ \A k \in 1..n :
                        /\ InAxis(arr, 3, Bc(risetimeidxs, k))
                        /\ InAxis(arr, 4, Bc(starttimeidxs, k)))
        THEN Raised("IndexError")
        ELSE IF ~(entries.rows \in {1, n}
                    /\ entries.cols \in {1, arr.shape[5]})
        THEN Raised("ValueError")
        ELSE Ret([arr EXCEPT !.data =
                [ix \in DOMAIN arr.data |->
                    LET K == {k \in 1..n :
                                 /\ Bc(risetimeidxs, k) = ix[3]
                                 /\ Bc(starttimeidxs, k) = ix[4]}
                        last == CHOOSE k \in K : \A m \in K : m <= k
                    IN  IF ix[1] = tidx /\ K # {}
                        THEN EntryVal(entries,
                                 IF entries.rows = 1 THEN 1 ELSE last,
                                 IF entries.cols = 1 THEN 1 ELSE ix[5] + 1)
                        ELSE arr.data[ix]]])

\* self._gfmatrix[tidx, patchidx, risetimeidxs, starttimeidxs, :] = entries
\* the array afterwards, or the exception numpy raises (nothing is written)
SetItem(arr, tidx, patchidx, risetimeidxs, starttimeidxs, entries) ==
    LET n == BroadcastLen({Len(risetimeidxs), Len(starttimeidxs)})
    IN  IF n = 0 THEN Raised("IndexError")
        ELSE IF ~(/\ InAxis(arr, 1, tidx) /\ InAxis(arr, 2, patchidx)
                  /\ \A k \in 1..n :
                        /\ InAxis(arr, 3, Bc(risetimeidxs, k))
                        /\ InAxis(arr, 4, Bc(starttimeidxs, k)))
        THEN Raised("IndexError")
        ELSE IF ~(entries.rows \in {1, n}
                    /\ entries.cols \in {1, arr.shape[5]})
        THEN Raised("ValueError")
        ELSE Ret([arr EXCEPT !.data =
                [ix \in DOMAIN arr.data |->
                    LET K == {k \in 1..n :
                                 /\ Bc(risetimeidxs, k) = ix[3]
                                 /\ Bc(starttimeidxs, k) = ix[4]}
                        last == CHOOSE k \in K : \A m \in K : m <= k
                    IN  IF ix[1] = tidx /\ ix[2] = patchidx /\ K # {}
                        THEN EntryVal(entries,
                                 IF entries.rows = 1 THEN 1 ELSE last,
                                 IF entries.cols = 1 THEN 1 ELSE ix[5] + 1)
                        ELSE arr.data[ix]]])

\* mutant: put that compares the trace length after it has written
put_check_after(l, h, entries, target, patchidx, risetimeidxs, starttimeidxs) ==
    IF entries.ndim < 2 THEN Outcome(l, h, Raised("ValueError"))
    ELSE IF ~check_setup(l) THEN Outcome(l, h, Raised("GFLibraryError"))
    ELSE LET l1 == target_index_mapping(l)
         IN  IF target \notin DOMAIN l1.target2index
             THEN Outcome(l1, h, Raised("KeyError"))
             ELSE LET w == SetItem(h[l.gfmatrix], l1.target2index[target],
                                   patchidx, risetimeidxs, starttimeidxs,
                                   entries)
                  IN  IF Failed(w) THEN Outcome(l1, h, w)
                      ELSE Outcome(l1, [h EXCEPT ![l.gfmatrix] = w.value],
                                   IF entries.cols # nsamples(l, h).value
                                   THEN Raised("GFLibraryError")
                                   ELSE Ret(None))

put(l, h, entries, target, patchidx, risetimeidxs, starttimeidxs) ==
    IF entries.ndim < 2 THEN Outcome(l, h, Raised("ValueError"))
    ELSE IF Failed(nsamples(l, h)) THEN Outcome(l, h, nsamples(l, h))
    ELSE IF entries.cols # nsamples(l, h).value
    THEN Outcome(l, h, Raised("GFLibraryError"))
    ELSE IF ~check_setup(l) THEN Outcome(l, h, Raised("GFLibraryError"))
    ELSE LET l1 == target_index_mapping(l)
         IN  IF target \notin DOMAIN l1.target2index
             THEN Outcome(l1, h, Raised("KeyError"))
             ELSE LET w == SetItem(h[l.gfmatrix], l1.target2index[target],
                                   patchidx, risetimeidxs, starttimeidxs,
                                   entries)
                  IN  IF Failed(w) THEN Outcome(l1, h, w)
                      ELSE Outcome(l1, [h EXCEPT ![l.gfmatrix] = w.value],
                                   Ret(None))

\* rows k = 1..n of arr[tidx, patchidxs, risetimeidxs, starttimeidxs, :]
Gather(arr, tidx, patchidxs, risetimeidxs, starttimeidxs, n) ==
    [k \in 1..n |->
        [j \in 1..arr.shape[5] |->
            arr.data[<<tidx, Bc(patchidxs, k), Bc(risetimeidxs, k),
                       Bc(starttimeidxs, k), j - 1>>]]]

\* rows.reshape((m, cols)): element (k, j) in row-major order
Reshape(rows, width, k, j, cols) ==
    LET pos == (k - 1) * cols + (j - 1)
    IN  rows[(pos \div width) + 1][(pos % width) + 1]

\* sum over k = 1..m of term[k], accumulated in dtype
RECURSIVE DotLoop(_, _, _, _)
DotLoop(term, m, dtype, acc) ==
    IF m = 0 THEN acc
    ELSE Cast(dtype, DotLoop(term, m - 1, dtype, acc) + Cast(dtype, term[m]))

\* mutant: the slips are left out of the product
WeightedUnit(x, slip) == x

\* one product of the dot
Weighted(x, slip) == x * slip

\* arr[tidx, patchidxs, risetimeidxs, starttimeidxs, :]
\*     .reshape((slips.shape[0], nsamples)).T.dot(slips)
StackArray(arr, dtype, tidx, patchidxs, risetimeidxs, starttimeidxs, slips, cols) ==
    LET n == BroadcastLen({Len(patchidxs), Len(risetimeidxs),
                           Len(starttimeidxs)})
        m == Len(slips)
    IN  IF n = 0 THEN Raised("IndexError")
        ELSE IF ~(/\ InAxis(arr, 1, tidx)
                  /\ \A k \in 1..n :
                        /\ InAxis(arr, 2, Bc(patchidxs, k))
                        /\ InAxis(arr, 3, Bc(risetimeidxs, k))
                        /\ InAxis(arr, 4, Bc(starttimeidxs, k)))
        THEN Raised("IndexError")
        ELSE IF n * arr.shape[5] # m * cols THEN Raised("ValueError")
        ELSE LET rows == Gather(arr, tidx, patchidxs, risetimeidxs,
                                starttimeidxs, n)
             IN  Ret([j \in 1..cols |->
                        DotLoop([k \in 1..m |->
                                    Weighted(Reshape(rows, arr.shape[5],
                                                     k, j, cols),
                                             slips[k])],
                                m, dtype, 0)])

\* the dtype the active backend computes in
ModeDtype(mode, dtype) == IF mode = "theano" THEN dtype ELSE "float64"

\* stack: the target dictionary is built first, then the attribute
\* _stack_switch is read; the value of the expression is returned
stack(l, h, dtype, target, patchidxs, risetimeidxs, starttimeidxs, slips) ==
    LET l1 == target_index_mapping(l)
    IN  IF target \notin DOMAIN l1.target2index
        THEN Outcome(l1, h, Raised("KeyError"))
        ELSE IF l1.stack_switch = None
        THEN Outcome(l1, h, Raised("AttributeError"))
        ELSE Outcome(l1, h,
                 StackArray(h[l1.stack_switch[l1.mode]],
                            ModeDtype(l1.mode, dtype),
                            l1.target2index[target],
                            patchidxs, risetimeidxs, starttimeidxs, slips,
                            nsamples(l1, h).value))

\* element (t, p, j) of gathered.reshape((nt, np, nsamp)), gathered being
\* arr[:, patchidxs, risetimeidxs, starttimeidxs, :] of shape
\* (arr.shape[1], n, arr.shape[5]), in row-major order
ReshapeAll(arr, patchidxs, risetimeidxs, starttimeidxs, n, np, nsamp, t, p, j) ==
    LET pos == ((t - 1) * np + (p - 1)) * nsamp + (j - 1)
        j0 == pos % arr.shape[5]
        k == ((pos \div arr.shape[5]) % n) + 1
        t0 == pos \div (arr.shape[5] * n)
    IN  arr.data[<<t0, Bc(patchidxs, k), Bc(risetimeidxs, k),
                   Bc(starttimeidxs, k), j0>>]

\* the value of the graph stack_all builds over the tensor arr:
\*     batched_dot(d.dimshuffle((1, 0, 2)), slips).sum(axis=0),
\* d = arr[:, self._patchidxs, risetimeidxs, starttimeidxs, :]
\*         .reshape((self.ntargets, self.npatches, self.nsamples))
\* row t, sample j: the sum over the patches p of d[t, p, j] * slips[p]
StackAllArray(arr, l, h, dtype, risetimeidxs, starttimeidxs, slips) ==
    LET patchidxs == l.patchidxs.arr
        n == BroadcastLen({Len(patchidxs), Len(risetimeidxs),
                           Len(starttimeidxs)})
        nt == ntargets(l, h).value
        np == npatches(l, h).value
        nsamp == nsamples(l, h).value
    IN  IF n = 0 THEN Raised("IndexError")
        ELSE IF ~(\A k \in 1..n :
                     /\ InAxis(arr, 2, Bc(patchidxs, k))
                     /\ InAxis(arr, 3, Bc(risetimeidxs, k))
                     /\ InAxis(arr, 4, Bc(starttimeidxs, k)))
        THEN Raised("IndexError")
        ELSE IF arr.shape[1] * n * arr.shape[5] # nt * np * nsamp
        THEN Raised("ValueError")
        ELSE IF Len(slips) # np THEN Raised("ValueError")
        ELSE Ret([t \in 1..nt |-> [j \in 1..nsamp |->
                 DotLoop([p \in 1..np |->
                             Weighted(ReshapeAll(arr, patchidxs,
                                          risetimeidxs, starttimeidxs,
                                          n, np, nsamp, t, p, j),
                                      slips[p])],
                         np, dtype, 0)]])

\* mutant: stack_all that falls back on the eager tensor while the graph
\* tensor is missing
stack_all_fallback(l, h, dtype, risetimeidxs, starttimeidxs, slips) ==
    IF l.gfmatrix = NoRef THEN Outcome(l, h, Raised("GFLibraryError"))
    ELSE Outcome(l, h,
             StackAllArray(h[IF l.sgfmatrix = NoRef THEN l.gfmatrix
                             ELSE l.sgfmatrix],
                           l, h, dtype, risetimeidxs, starttimeidxs, slips))

\* stack_all reads the graph tensor whatever the active mode is
stack_all(l, h, dtype, risetimeidxs, starttimeidxs, slips) ==
    IF l.sgfmatrix = NoRef THEN Outcome(l, h, Raised("GFLibraryError"))
    ELSE Outcome(l, h,
             StackAllArray(h[l.sgfmatrix], l, h, dtype, risetimeidxs,
                           starttimeidxs, slips))

\* the seven shape properties read one after the other
Introspection(l, h) ==
    [ntargets |-> ntargets(l, h), npatches |-> npatches(l, h),
     nrisetimes |-> nrisetimes(l, h), nstarttimes |-> nstarttimes(l, h),
     nsamples |-> nsamples(l, h), size |-> size(l, h),
     filesize |-> filesize(l, h)]

(***************************************************************************)
(* The library state machine                                               *)
(***************************************************************************)
Targets == SubSeq(TargetNames, 1, MaxTargets)

\* batches of rank 2, and of rank 1 (a single trace)
Batches ==
    [ndim : {2}, rows : 1..MaxEntries, cols : 1..MaxSamples, base : Bases]
    \cup [ndim : {1}, rows : {1}, cols : {MaxSamples}, base : Bases]

\* parallel (risetime, starttime) index arrays of 1..MaxEntries entries
IndexPairs ==
    UNION {[1..n -> (0..MaxRisetimes - 1) \X (0..MaxStarttimes - 1)] :
              n \in 1..MaxEntries}

\* parallel (patch, risetime, starttime) index arrays
IndexTriples ==
    UNION {[1..n -> (0..MaxPatches - 1) \X (0..MaxRisetimes - 1)
                        \X (0..MaxStarttimes - 1)] : n \in 1..MaxEntries}

SlipVectors == UNION {[1..n -> Slips] : n \in 1..MaxEntries}

Column(seq, c) == [k \in 1..Len(seq) |-> seq[k][c]]

InitLib ==
    /\ \E nstations \in 1..MaxTargets : lib = NewLibrary(Targets, nstations)
    /\ heap = <<>>
    /\ floatX \in {"float32", "float64"}
    /\ call = None
    /\ known = None
    /\ budget = [setup |-> MaxSetups, init |-> MaxInits, put |-> MaxPuts]
    /\ threads = <<>>

Init == NoFault /\ InitLib /\ NoEnv

\* o is the Outcome of the call, c its name and arguments; a call is made
\* once the caller has taken the result of the previous one
Apply(o, c) ==
    /\ call = None
    /\ lib' = o.lib
    /\ heap' = o.heap
    /\ call' = [c EXCEPT !.ret = o.ret]
    /\ UNCHANGED <<floatX, faultvars, threads, envvars>>

\* a call that changes the library needs budget; one that fails is free
Spend(what, o) ==
    /\ budget[what] > 0 \/ Failed(o.ret)
    /\ budget' = IF Failed(o.ret) THEN budget
                 ELSE [budget EXCEPT ![what] = @ - 1]

Setup ==
    \E nt \in 1..MaxTargets, np \in 1..MaxPatches,
       nr \in {MaxRisetimes}, ns \in {MaxStarttimes},
       nsamp \in 1..MaxSamples :
       LET o == setup(lib, heap, nt, np, nr, ns, nsamp)
       IN  /\ Apply(o, [op |-> "setup",
                        shape |-> <<nt, np, nr, ns, nsamp>>, ret |-> None])
           /\ Spend("setup", o)
           /\ known' = IF Failed(o.ret) THEN known ELSE None

InitOptimization ==
    LET o == init_optimization(lib, heap, floatX)
    IN  /\ Apply(o, [op |-> "init_optimization", ret |-> None])
        /\ Spend("init", o)
        /\ UNCHANGED known

Put ==
    \E entries \in Batches, target \in Range(Targets),
       patchidx \in 0..MaxPatches - 1, pairs \in IndexPairs :
       LET o == put(lib, heap, entries, target, patchidx,
                    Column(pairs, 1), Column(pairs, 2))
       IN  /\ Apply(o, [op |-> "put", entries |-> entries,
                        target |-> target, patchidx |-> patchidx,
                        risetimeidxs |-> Column(pairs, 1),
                        starttimeidxs |-> Column(pairs, 2), ret |-> None])
           /\ Spend("put", o)
           /\ known' = IF Failed(o.ret) THEN known
                       ELSE [entries |-> entries, target |-> target,
                             patchidx |-> patchidx,
                             risetimeidxs |-> Column(pairs, 1),
                             starttimeidxs |-> Column(pairs, 2)]

SetStackMode ==
    /\ \E mode \in {"numpy", "theano", "bogus"} :
          Apply(set_stack_mode(lib, heap, mode),
                [op |-> "set_stack_mode", mode |-> mode, ret |-> None])
    /\ UNCHANGED <<budget, known>>

Stack ==
    /\ \E target \in Range(Targets), triples \in IndexTriples :
       \E slips \in {v \in SlipVectors : Len(v) = Len(triples)} :
          Apply(stack(lib, heap, floatX, target, Column(triples, 1),
                      Column(triples, 2), Column(triples, 3), slips),
                [op |-> "stack", target |-> target,
                 patchidxs |-> Column(triples, 1),
                 risetimeidxs |-> Column(triples, 2),
                 starttimeidxs |-> Column(triples, 3),
                 slips |-> slips, ret |-> None])
    /\ UNCHANGED <<budget, known>>

StackAll ==
    /\ \E pairs \in IndexPairs, slips \in SlipVectors :
          Apply(stack_all(lib, heap, floatX, Column(pairs, 1),
                          Column(pairs, 2), slips),
                [op |-> "stack_all", risetimeidxs |-> Column(pairs, 1),
                 starttimeidxs |-> Column(pairs, 2), slips |-> slips,
                 ret |-> None])
    /\ UNCHANGED <<budget, known>>

Introspect ==
    /\ Apply(Outcome(lib, heap, Ret(Introspection(lib, heap))),
             [op |-> "introspect", ret |-> None])
    /\ UNCHANGED <<budget, known>>

\* the caller takes the result of the last call
Return ==
    /\ call # None
    /\ call' = None
    /\ UNCHANGED <<lib, heap, floatX, known, budget, faultvars, threads,
                   envvars>>

Next ==
    \/ Setup
    \/ InitOptimization
    \/ Put
    \/ SetStackMode
    \/ Stack
    \/ StackAll
    \/ Introspect
    \/ Return

Spec == Init /\ [][Next]_vars

(***************************************************************************)
(* One library that is sized a second time                                 *)
(***************************************************************************)
\* a library of one station, float64 graphs, and one setup more than in
\* Spec
InitResetup ==
    /\ NoFault
    /\ NoEnv
    /\ lib = NewLibrary(Targets, 1)
    /\ heap = <<>>
    /\ floatX = "float64"
    /\ call = None
    /\ known = None
    /\ budget = [setup |-> MaxSetups + 1, init |-> MaxInits, put |-> MaxPuts]
    /\ threads = <<>>

SpecResetup == InitResetup /\ [][Next]_vars

(***************************************************************************)
(* Two threads calling put on one library                                  *)
(***************************************************************************)
\* mutant: the write of one index entry that leaves out the patch index and
\* fills the row of every patch
SetRowEveryPatch(arr, tidx, patchidx, risetimeidxs, starttimeidxs, entries, k) ==
    [arr EXCEPT !.data =
        [ix \in DOMAIN arr.data |->
            IF /\ ix[1] = tidx
               /\ ix[3] = Bc(risetimeidxs, k)
               /\ ix[4] = Bc(starttimeidxs, k)
            THEN EntryVal(entries, IF entries.rows = 1 THEN 1 ELSE k,
                          IF entries.cols = 1 THEN 1 ELSE ix[5] + 1)
            ELSE arr.data[ix]]]

\* the part of the assignment
\*     self._gfmatrix[tidx, patchidx, risetimeidxs, starttimeidxs, :] = entries
\* that belongs to index entry k: one trace is written in place
SetRow(arr, tidx, patchidx, risetimeidxs, starttimeidxs, entries, k) ==
    [arr EXCEPT !.data =
        [ix \in DOMAIN arr.data |->
            IF /\ ix[1] = tidx
               /\ ix[2] = patchidx
               /\ ix[3] = Bc(risetimeidxs, k)
               /\ ix[4] = Bc(starttimeidxs, k)
            THEN EntryVal(entries, IF entries.rows = 1 THEN 1 ELSE k,
                          IF entries.cols = 1 THEN 1 ELSE ix[5] + 1)
            ELSE arr.data[ix]]]

\* the library the threads share: sized, nothing put, no target dictionary
PutStart ==
    setup(NewLibrary(Targets, MaxTargets), <<>>, MaxTargets, MaxPatches,
          MaxRisetimes, MaxStarttimes, MaxSamples)

\* the put calls of thread i; the batches of the two threads differ in
\* every value
PutCalls(i) ==
    {[entries |-> [b EXCEPT !.base = @ + 100 * i], target |-> target,
      patchidx |-> patchidx, risetimeidxs |-> Column(pairs, 1),
      starttimeidxs |-> Column(pairs, 2), pc |-> "check", tidx |-> 0,
      k |-> 1, built |-> FALSE, ret |-> None] :
        b \in Batches, target \in Range(Targets),
        patchidx \in 0..MaxPatches - 1, pairs \in IndexPairs}

\* the two calls address different (target, patch) pairs
InitPut ==
    /\ NoFault
    /\ NoEnv
    /\ lib = PutStart.lib
    /\ heap = PutStart.heap
    /\ floatX = "float64"
    /\ call = None
    /\ known = None
    /\ budget = None
    /\ \E c1 \in PutCalls(1), c2 \in PutCalls(2) :
          /\ <<c1.target, c1.patchidx>> # <<c2.target, c2.patchidx>>
          /\ threads = <<c1, c2>>

\* thread i moves on: its record becomes c
Step(i, c) ==
    /\ threads' = [threads EXCEPT ![i] = c]
    /\ UNCHANGED <<floatX, call, known, budget, faultvars, envvars>>

Done(c, ret) == [c EXCEPT !.pc = "done", !.ret = ret]

\* the tests put makes before it touches the library's dictionary
PutCheck(i) ==
    LET c == threads[i]
    IN  /\ c.pc = "check"
        /\ Step(i, IF c.entries.ndim < 2 THEN Done(c, Raised("ValueError"))
                   ELSE IF Failed(nsamples(lib, heap))
                   THEN Done(c, nsamples(lib, heap))
                   ELSE IF c.entries.cols # nsamples(lib, heap).value
                   THEN Done(c, Raised("GFLibraryError"))
                   ELSE IF ~check_setup(lib)
                   THEN Done(c, Raised("GFLibraryError"))
                   ELSE [c EXCEPT !.pc = "mapping"])
        /\ UNCHANGED <<lib, heap>>

\* target_index_mapping: the test 'self._target2index is None'
PutMapping(i) ==
    LET c == threads[i]
    IN  /\ c.pc = "mapping"
        /\ Step(i, [c EXCEPT !.pc = IF lib.target2index = None
                                    THEN "build" ELSE "lookup"])
        /\ UNCHANGED <<lib, heap>>

\* target_index_mapping: the dictionary is built and assigned
PutBuild(i) ==
    LET c == threads[i]
    IN  /\ c.pc = "build"
        /\ lib' = [lib EXCEPT !.target2index = TargetDict(lib.targets)]
        /\ Step(i, [c EXCEPT !.pc = "lookup", !.built = TRUE])
        /\ UNCHANGED heap

\* tidx = self.target_index_mapping()[target], and the tests numpy makes
\* on the indexes and on the shape of entries before it writes
PutLookup(i) ==
    LET c == threads[i]
    IN  /\ c.pc = "lookup"
        /\ Step(i, IF c.target \notin DOMAIN lib.target2index
                   THEN Done(c, Raised("KeyError"))
                   ELSE LET tidx == lib.target2index[c.target]
                            w == SetItem(heap[lib.gfmatrix], tidx,
                                         c.patchidx, c.risetimeidxs,
                                         c.starttimeidxs, c.entries)
                        IN  IF Failed(w) THEN Done(c, w)
                            ELSE [c EXCEPT !.pc = "write", !.tidx = tidx])
        /\ UNCHANGED <<lib, heap>>

\* the assignment writes the trace of index entry k in place; the threads
\* may be switched between two entries
PutWrite(i) ==
    LET c == threads[i]
        n == BroadcastLen({Len(c.risetimeidxs), Len(c.starttimeidxs)})
    IN  /\ c.pc = "write"
        /\ heap' = [heap EXCEPT ![lib.gfmatrix] =
                       SetRow(@, c.tidx, c.patchidx, c.risetimeidxs,
                              c.starttimeidxs, c.entries, c.k)]
        /\ Step(i, IF c.k = n THEN Done(c, Ret(None))
                   ELSE [c EXCEPT !.k = @ + 1])
        /\ UNCHANGED lib

NextPut ==
    \E i \in DOMAIN threads :
        \/ PutCheck(i)
        \/ PutMapping(i)
        \/ PutBuild(i)
        \/ PutLookup(i)
        \/ PutWrite(i)

SpecPut == InitPut /\ [][NextPut]_vars

(***************************************************************************)
(* Properties of the fault ordering and of discretize_sources (SpecFault)  *)
(***************************************************************************)
Built == fault # None

Ordered(op) == fin # None /\ fin.op = op

\* the last call on the fault was op
Asked(op) == fcall # None /\ fcall.op = op

\* the subfaults FaultOrdering was given counts for on both axes
NGiven == Min(Len(fin.npls), Len(fin.npws))

\* C1: the PatchMap slices, in subfault order, partition [0, npatches): the
\* first starts at 0, each starts where the previous one stops, slice i is
\* npls[i] * npws[i] long, the last stops at ordering.npatches, which is the
\* sum of the patch counts; get_patch_indexes(i) returns slice i
C1_SlicesPartition ==
    Built =>
        LET vmap == fault.ordering.vmap
            n == Len(vmap)
        IN  /\ n = NGiven
            /\ \A i \in 1..n :
                  /\ vmap[i].slc[1] = IF i = 1 THEN 0 ELSE vmap[i - 1].slc[2]
                  /\ vmap[i].slc[2] - vmap[i].slc[1]
                        = fin.npls[i] * fin.npws[i]
            /\ fault.ordering.npatches
                  = IF n = 0 THEN 0 ELSE vmap[n].slc[2]
            /\ fault.ordering.npatches
                  = SumSeq([i \in 1..n |-> fin.npls[i] * fin.npws[i]])
            /\ nsubpatches(fault) = fault.ordering.npatches
            /\ (Asked("get_patch_indexes") /\ fcall.index \in 0..n - 1)
                  => fcall.ret = Ret(vmap[fcall.index + 1].slc)

\* a fault of two subfaults with unequal axes, asked for its second slice
C1_Witness ==
    /\ Built
    /\ nsubfaults(fault) = 2
    /\ fin.npls[1] # fin.npws[1]
    /\ Asked("get_patch_indexes")
    /\ fcall.index = 1
    /\ ~Failed(fcall.ret)
    /\ fcall.ret.value[1] > 0
    /\ fcall.ret.value[2] = fault.ordering.npatches

\* C2: building an ordering fails, and produces none, when a count list is
\* empty or the two lists differ in length
C2_BadListsRejected ==
    (/\ Ordered("FaultOrdering")
     /\ \/ Len(fin.npls) = 0
        \/ Len(fin.npws) = 0
        \/ Len(fin.npls) # Len(fin.npws))
    => Failed(fin.ret) /\ ~Built

\* C3: with 'seismic' among the datatypes discretize_sources fails, and
\* returns no fault, when patch_length differs from patch_width or the
\* number of sources is not exactly one; with 'geodetic' alone neither
\* makes it fail
C3_SeismicRestrictions ==
    Ordered("discretize_sources") =>
        /\ (/\ InList("seismic", fin.datatypes)
            /\ \/ fin.patch_length # fin.patch_width
               \/ Len(fin.sources) # 1)
           => Failed(fin.ret) /\ ~Built
        /\ ~InList("seismic", fin.datatypes) => ~Failed(fin.ret) /\ Built

\* C4: the patch count per axis recorded in the ordering is
\* ceil(extended_dimension / target_patch_dimension): at least 1, the
\* least count whose patches are no larger than the target (23 over 5: 5)
C4_PatchCounts ==
    (Ordered("discretize_sources") /\ Built) =>
        /\ nsubfaults(fault) = Len(fin.sources)
        /\ \A i \in 1..Len(fin.sources) :
              LET shp == fault.ordering.vmap[i].shp
                  npw == shp[1]
                  npl == shp[2]
                  length == fin.sources[i].ext_length
                  width == fin.sources[i].ext_width
              IN  /\ npl >= 1
                  /\ npw >= 1
                  /\ length <= npl * fin.patch_length
                  /\ (npl - 1) * fin.patch_length < length
                  /\ width <= npw * fin.patch_width
                  /\ (npw - 1) * fin.patch_width < width
                  /\ (length = 23 /\ fin.patch_length = 5) => npl = 5

\* an extended length of 23 cut into patches of 5: five patches, each
\* shorter than 5
C4_Witness ==
    /\ Ordered("discretize_sources")
    /\ Built
    /\ Len(fin.sources) >= 1
    /\ fin.sources[1].ext_length = 23
    /\ fin.patch_length = 5
    /\ fault.ordering.vmap[1].shp[2] = 5
    /\ 5 * fin.patch_length > 23

(***************************************************************************)
(* Properties of the library (Spec)                                        *)
(***************************************************************************)
Called(op) == call # None /\ call.op = op

Sized == lib.gfmatrix # NoRef

\* no call of setup has succeeded yet
NeverSized == budget.setup = MaxSetups

\* no call of init_optimization has succeeded yet
NeverInitialised == budget.init = MaxInits

\* C5: setup fails when ntargets differs from the number of stations, and
\* the failed call leaves the library as it was (no tensor is allocated)
C5_SetupRejectsMismatch ==
    /\ [](Called("setup") /\ call.shape[1] # lib.nstations
            => Failed(call.ret))
    /\ [][(call' # None /\ call'.op = "setup" /\ Failed(call'.ret))
            => lib' = lib /\ heap' = heap]_vars

\* a setup refused on an unsized library, which stays unsized
C5_Witness ==
    /\ Called("setup")
    /\ call.shape[1] # lib.nstations
    /\ Failed(call.ret)
    /\ ~Sized
    /\ heap = <<>>

AllFail(r) == \A p \in DOMAIN r : Failed(r[p])

ShapeAnswers(shape) ==
    [ntargets |-> Ret(shape[1]), npatches |-> Ret(shape[2]),
     nrisetimes |-> Ret(shape[3]), nstarttimes |-> Ret(shape[4]),
     nsamples |-> Ret(shape[5]),
     size |-> Ret(shape[1] * shape[2] * shape[3] * shape[4] * shape[5]),
     filesize |-> Ret(8 * shape[1] * shape[2] * shape[3] * shape[4]
                         * shape[5])]

\* C6: while setup has never succeeded every shape property fails; from a
\* successful setup(a, b, c, d, e) on they return a, b, c, d, e and
\* a*b*c*d*e (filesize: the bytes of that many float64), until the next
\* successful setup
C6_IntrospectionOnlyOnceSized ==
    /\ [](NeverSized => AllFail(Introspection(lib, heap)))
    /\ [](Called("introspect") => call.ret.value = Introspection(lib, heap))
    /\ [](Called("setup") /\ ~Failed(call.ret)
            => Introspection(lib, heap) = ShapeAnswers(call.shape))
    /\ [][(Sized /\ ~(call' # None /\ call'.op = "setup"))
            => Introspection(lib', heap') = Introspection(lib, heap)]_vars

\* the properties read on a sized library whose axes differ, after a put
C6_Witness ==
    /\ Called("introspect")
    /\ Sized
    /\ known # None
    /\ ~AllFail(call.ret.value)
    /\ call.ret.value.ntargets # call.ret.value.npatches
    /\ call.ret.value.nsamples # call.ret.value.nrisetimes
    /\ call.ret.value.size.value >= 4

\* the cases in which put must fail, for the call c on library l
PutMustFail(c, l, h) ==
    \/ c.entries.ndim < 2
    \/ l.gfmatrix = NoRef
    \/ c.entries.cols # h[l.gfmatrix].shape[5]

\* C7: put fails when entries has fewer than two dimensions, when its
\* sample-axis length differs from the library's sample count, or when the
\* library is not sized; no cell of the tensor changes in these cases
C7_PutRejects ==
    /\ [](Called("put") /\ PutMustFail(call, lib, heap) => Failed(call.ret))
    /\ [][(call' # None /\ call'.op = "put"
             /\ PutMustFail(call', lib', heap'))
            => heap' = heap]_vars

\* a rank-2 batch of the wrong trace length refused by a sized library,
\* that numpy would have broadcast into the tensor
C7_Witness ==
    /\ Called("put")
    /\ Failed(call.ret)
    /\ Sized
    /\ call.entries.ndim = 2
    /\ call.entries.cols = 1
    /\ heap[lib.gfmatrix].shape[5] = 2
    /\ call.target \in DOMAIN TargetDict(lib.targets)
    /\ call.patchidx < heap[lib.gfmatrix].shape[2]

\* position of a target in the library's target list
IndexOf(target) == (CHOOSE k \in 1..Len(lib.targets) : lib.targets[k] = target) - 1

\* the arguments of the stack call address cells of the tensor arr
ValidStackCall(c, arr) ==
    /\ IndexOf(c.target) < arr.shape[1]
    /\ Len(c.slips) = Len(c.patchidxs)
    /\ \A k \in 1..Len(c.patchidxs) :
          /\ c.patchidxs[k] < arr.shape[2]
          /\ c.risetimeidxs[k] < arr.shape[3]
          /\ c.starttimeidxs[k] < arr.shape[4]

\* C8: on a sized library on which init_optimization was never called,
\* stack succeeds in the default mode and set_stack_mode('numpy') succeeds
C8_EagerBackendStandalone ==
    (Sized /\ NeverInitialised) =>
        /\ (Called("stack") /\ ValidStackCall(call, heap[lib.gfmatrix]))
              => lib.mode = "numpy" /\ ~Failed(call.ret)
        /\ (Called("set_stack_mode") /\ call.mode = "numpy")
              => ~Failed(call.ret)

\* row k of a batch, as stored in a tensor of the given trace length
BatchRow(entries, k, n) == [j \in 1..n |-> EntryVal(entries, k, j)]

\* the stack call reads back the one-row batch the caller put
ReadsBackKnown ==
    /\ Called("stack")
    /\ known # None
    /\ known.entries.rows = 1
    /\ Len(known.risetimeidxs) = 1
    /\ call.target = known.target
    /\ call.patchidxs = <<known.patchidx>>
    /\ call.risetimeidxs = known.risetimeidxs
    /\ call.starttimeidxs = known.starttimeidxs
    /\ call.slips = <<1>>

\* C9: after setup, putting a one-row batch at (t, p, [r], [s]) and then
\* calling stack(t, [p], [r], [s], [1]) returns exactly that row
C9_RoundTrip ==
    ReadsBackKnown =>
        call.ret = Ret(BatchRow(known.entries, 1, heap[lib.gfmatrix].shape[5]))

\* sum over k = 1..n of slips[k] * rows[k][j], left to right in dtype
RECURSIVE LinearCombination(_, _, _, _, _)
LinearCombination(rows, slips, j, n, dtype) ==
    IF n = 0 THEN 0
    ELSE Cast(dtype, LinearCombination(rows, slips, j, n - 1, dtype)
                        + Cast(dtype, slips[n] * rows[n][j]))

\* C10: a stack call with n parallel index entries returns the
\* nsamples-long vector whose sample j is the sum over k of
\* slips[k] * tensor[index(target), patchidxs[k], risetimeidxs[k],
\* starttimeidxs[k], j], tensor being the array of the active backend
C10_StackIsLinearCombination ==
    (Called("stack") /\ ~Failed(call.ret)) =>
        LET arr == heap[lib.stack_switch[lib.mode]]
            n == Len(call.patchidxs)
            rows == [k \in 1..n |->
                        [j \in 1..arr.shape[5] |->
                            arr.data[<<IndexOf(call.target),
                                       call.patchidxs[k],
                                       call.risetimeidxs[k],
                                       call.starttimeidxs[k], j - 1>>]]]
        IN  /\ Len(call.ret.value) = heap[lib.gfmatrix].shape[5]
            /\ Len(call.ret.value) = arr.shape[5]
            /\ \A j \in 1..arr.shape[5] :
                  call.ret.value[j]
                    = LinearCombination(rows, call.slips, j, n,
                                        ModeDtype(lib.mode, floatX))

\* two different rows of a filled tensor stacked with different slips
C10_Witness ==
    /\ Called("stack")
    /\ ~Failed(call.ret)
    /\ known # None
    /\ Len(call.patchidxs) = 2
    /\ call.risetimeidxs[1] # call.risetimeidxs[2]
    /\ call.slips[1] # call.slips[2]
    /\ call.target = known.target
    /\ call.patchidxs = <<known.patchidx, known.patchidx>>
    /\ known.entries.rows = 2
    /\ known.risetimeidxs = call.risetimeidxs
    /\ \A j \in 1..Len(call.ret.value) : call.ret.value[j] > 2^24

(***************************************************************************)
(* Properties of stack_all, of the two backends and of the mode switch     *)
(* (Spec)                                                                  *)
(***************************************************************************)
\* the call c selects one (risetime, starttime, slip) per patch
PerPatch(c) ==
    /\ Len(c.slips) = heap[lib.gfmatrix].shape[2]
    /\ Len(c.risetimeidxs) = Len(c.slips)
    /\ Len(c.starttimeidxs) = Len(c.slips)

\* the outcomes of stack(target, [p], [risetimeidxs[p]],
\* [starttimeidxs[p]], [slips[p]]) for the patches p of the call c
PatchStacks(c, target) ==
    [p \in 1..Len(c.slips) |->
        stack(lib, heap, floatX, target, <<p - 1>>, <<c.risetimeidxs[p]>>,
              <<c.starttimeidxs[p]>>, <<c.slips[p]>>).ret]

\* C11: whenever stack_all returns for a per-patch selection, its row t is
\* the element-wise sum over the patches p of stack(t, [p],
\* [risetimeidxs[p]], [starttimeidxs[p]], [slips[p]]) (the sum taken in
\* the precision of the active backend, patch after patch)
C11_StackAllIsSumOfStacks ==
    (Called("stack_all") /\ ~Failed(call.ret) /\ PerPatch(call)) =>
        \A t \in 1..Len(call.ret.value) :
            LET s == PatchStacks(call, lib.targets[t])
            IN  /\ \A p \in DOMAIN s : ~Failed(s[p])
                /\ \A j \in 1..Len(call.ret.value[t]) :
                      call.ret.value[t][j]
                        = DotLoop([p \in DOMAIN s |-> s[p].value[j]],
                                  Len(call.slips),
                                  ModeDtype(lib.mode, floatX), 0)

OtherMode(mode) == IF mode = "numpy" THEN "theano" ELSE "numpy"

\* C12: once both backends are available, a stack call that returns a
\* value returns the value the same call returns in the other mode
C12_BackendsAgree ==
    (Called("stack") /\ lib.stack_switch # None /\ ~Failed(call.ret)) =>
        LET o == set_stack_mode(lib, heap, OtherMode(lib.mode))
        IN  /\ ~Failed(o.ret)
            /\ stack(o.lib, o.heap, floatX, call.target, call.patchidxs,
                     call.risetimeidxs, call.starttimeidxs, call.slips).ret
                 = call.ret

\* the caller makes the call op
Calls(op) == call = None /\ call' # None /\ call'.op = op

\* C13: while init_optimization has never succeeded the graph tensor is
\* missing, every stack_all call fails, and the failed call leaves the
\* library and its arrays as they were
C13_StackAllNeedsInit ==
    /\ [](NeverInitialised => lib.sgfmatrix = NoRef)
    /\ [][(Calls("stack_all") /\ NeverInitialised)
            => /\ Failed(call'.ret)
               /\ lib' = lib
               /\ heap' = heap]_vars

\* stack_all refused on a sized and filled library without a graph tensor
C13_Witness ==
    /\ Called("stack_all")
    /\ Failed(call.ret)
    /\ NeverInitialised
    /\ Sized
    /\ known # None
    /\ Len(call.slips) = heap[lib.gfmatrix].shape[2]
    /\ Len(call.risetimeidxs) = Len(call.slips)

Backends == {"numpy", "theano"}

\* C14: a set_stack_mode call with a name that is no backend fails, before
\* and after init_optimization, and the active mode stays what it was
C14_UnknownModeRejected ==
    [][(Calls("set_stack_mode") /\ call'.mode \notin Backends)
         => /\ Failed(call'.ret)
            /\ lib'.mode = lib.mode]_vars

\* an unknown name refused after init_optimization, the mode having been
\* switched back to 'numpy' before
C14_Witness ==
    /\ Called("set_stack_mode")
    /\ call.mode \notin Backends
    /\ Failed(call.ret)
    /\ lib.stack_switch # None
    /\ lib.mode = "numpy"

\* C15: a stack or stack_all call, returning or failing, leaves every field
\* of the library object and every array as they were: the tensors of both
\* backends, the sizing, the active mode and whatever else callers share
C15_StackingIsPure ==
    [][(Calls("stack") \/ Calls("stack_all"))
         => /\ lib' = lib
            /\ heap' = heap]_vars

(***************************************************************************)
(* Properties of the registration of sources and of the lookups (SpecFault)*)
(***************************************************************************)
\* the caller makes the call op on the fault
Asks(op) == fcall = None /\ fcall' # None /\ fcall'.op = op

\* the keys of the pair (datatype, component) for the subfaults of f
PairKeys(f, datatype, component) ==
    {<<datatype, component, i>> : i \in 0..nsubfaults(f) - 1}

\* the pair has registered sources
HasSources(f, datatype, component) ==
    PairKeys(f, datatype, component) \cap DOMAIN f.ext_sources # {}

\* the call c left every registered source as it was
NothingRegistered(c) == Failed(c.ret) /\ fault' = fault

\* the call c replaced the sources of its pair, and of no other
PairReplaced(c) ==
    /\ ~Failed(c.ret)
    /\ DOMAIN fault'.ext_sources = DOMAIN fault.ext_sources
    /\ \A key \in DOMAIN fault.ext_sources :
          fault'.ext_sources[key]
            = IF key \in PairKeys(fault, c.datatype, c.component)
              THEN c.ext_sources[key[3] + 1]
              ELSE fault.ext_sources[key]

\* the claim as it stands: for a pair that has registered sources, a
\* setup_subfaults call fails and changes nothing when replace is false, and
\* succeeds and replaces the sources of exactly that pair when it is true
C16_AsStated ==
    [][(Asks("setup_subfaults")
          /\ HasSources(fault, fcall'.datatype, fcall'.component))
         => IF fcall'.replace THEN PairReplaced(fcall')
            ELSE NothingRegistered(fcall')]_vars

\* C16: for a pair that has registered sources, a setup_subfaults call fails
\* and leaves every registered source unchanged when replace is false; with
\* replace true it succeeds and replaces the sources of exactly that pair
\* when ext_sources has one source per subfault, and fails leaving every
\* source unchanged when it has not
C16_ReRegistration ==
    [][(Asks("setup_subfaults")
          /\ HasSources(fault, fcall'.datatype, fcall'.component))
         => IF fcall'.replace
                /\ Len(fcall'.ext_sources) = nsubfaults(fault)
            THEN PairReplaced(fcall')
            ELSE NothingRegistered(fcall')]_vars

\* the sources of one pair of a two-subfault geometry replaced by sources
\* of another rake, the other pair keeping its own
C16_Witness ==
    /\ Asked("setup_subfaults")
    /\ fcall.replace
    /\ ~Failed(fcall.ret)
    /\ nsubfaults(fault) = 2
    /\ fcall.ext_sources[1].rake = 30
    /\ \E key \in DOMAIN fault.ext_sources :
          /\ key[2] # fcall.component
          /\ fault.ext_sources[key].rake = 0
    /\ \A key \in PairKeys(fault, fcall.datatype, fcall.component) :
          /\ key \in DOMAIN fault.ext_sources
          /\ fault.ext_sources[key] = fcall.ext_sources[key[3] + 1]

\* the index is outside 0..nsubfaults-1
OutsideIndex(f, index) == index < 0 \/ index > nsubfaults(f) - 1

\* the pair is undeclared or has no registered source
NoSource(f, datatype, component) ==
    \/ ~check_datatype(f, datatype)
    \/ ~check_component(f, component)
    \/ ~HasSources(f, datatype, component)

\* C17: get_subfault and get_patch_indexes fail for every subfault index
\* outside 0..nsubfaults-1, negative ones included; get_subfault and
\* get_all_patches fail for every pair that is undeclared or has no
\* registered source (stated for geometries of at least one subfault)
C17_LookupsReject ==
    (Built /\ nsubfaults(fault) >= 1) =>
        /\ (Asked("get_patch_indexes") /\ OutsideIndex(fault, fcall.index))
              => Failed(fcall.ret)
        /\ (Asked("get_subfault")
              /\ (\/ OutsideIndex(fault, fcall.index)
                  \/ NoSource(fault, fcall.datatype, fcall.component)))
              => Failed(fcall.ret)
        /\ (Asked("get_all_patches")
              /\ NoSource(fault, fcall.datatype, fcall.component))
              => Failed(fcall.ret)

\* the declared (datatype, component) pairs of f
DeclaredPairs(f) == Range(f.datatypes) \X Range(f.components)

FullyRegistered(f, pair) ==
    PairKeys(f, pair[1], pair[2]) \subseteq DOMAIN f.ext_sources

\* C19: whatever setup_subfaults calls were made, returning or failing, each
\* declared pair has a registered source for every subfault index
\* 0..nsubfaults-1 or for none, and nothing is registered under any other
\* key; a geometry returned by discretize_sources has one for every
\* declared pair and every subfault
C19_AllOrNone ==
    Built =>
        /\ \A pair \in DeclaredPairs(fault) :
              \/ FullyRegistered(fault, pair)
              \/ ~HasSources(fault, pair[1], pair[2])
        /\ DOMAIN fault.ext_sources \subseteq
              UNION {PairKeys(fault, pair[1], pair[2]) :
                        pair \in DeclaredPairs(fault)}
        /\ Ordered("discretize_sources") =>
              \A pair \in DeclaredPairs(fault) : FullyRegistered(fault, pair)

\* a refused registration on a two-subfault geometry that has one declared
\* pair registered in full and another one not at all
C19_Witness ==
    /\ Built
    /\ Asked("setup_subfaults")
    /\ Failed(fcall.ret)
    /\ nsubfaults(fault) = 2
    /\ Len(fcall.ext_sources) = 1
    /\ \E pair \in DeclaredPairs(fault) :
          /\ FullyRegistered(fault, pair)
          /\ Cardinality(PairKeys(fault, pair[1], pair[2])) = 2
    /\ \E pair \in DeclaredPairs(fault) :
          /\ ~HasSources(fault, pair[1], pair[2])
          /\ pair = <<fcall.datatype, fcall.component>>

\* the attributes the definition of a slip component sets, the rake apart
Weights(component) == DOMAIN slip_directions[component] \ {"rake"}

\* C20: in the geometry discretize_sources returns, the source registered
\* for subfault i under the component c has the rake of reference source i
\* plus the rake offset of c, and the slip and opening weights of c's
\* definition, whatever the other reference sources are
C20_RotatedCopies ==
    (Ordered("discretize_sources") /\ Built) =>
        \A pair \in DeclaredPairs(fault) :
            \A i \in 0..nsubfaults(fault) - 1 :
                LET s == fault.ext_sources[<<pair[1], pair[2], i>>]
                IN  /\ s.rake = fin.sources[i + 1].rake
                                   + slip_directions[pair[2]].rake
                    /\ \A a \in Weights(pair[2]) :
                          s[a] = slip_directions[pair[2]][a]

(***************************************************************************)
(* Properties of concurrent put calls (SpecPut)                            *)
(***************************************************************************)
AllDone == threads # <<>> /\ \A i \in DOMAIN threads : threads[i].pc = "done"

\* the call of thread i made alone on the library l
PutOf(i, l, h) ==
    put(l, h, threads[i].entries, threads[i].target, threads[i].patchidx,
        threads[i].risetimeidxs, threads[i].starttimeidxs)

\* the calls of threads i and j made one after the other on the library
\* the threads started from
OneAfterTheOther(i, j) ==
    LET first == PutOf(i, PutStart.lib, PutStart.heap)
    IN  [first |-> first, second |-> PutOf(j, first.lib, first.heap)]

\* C18: two put calls that address different (target, patch) pairs, their
\* steps interleaved in any way and without a lock, leave the tensor that
\* the two calls leave when made one after the other, in either order, and
\* each call ends as it does then
C18_DisjointPutsNeedNoLock ==
    AllDone =>
        /\ heap = OneAfterTheOther(1, 2).second.heap
        /\ heap = OneAfterTheOther(2, 1).second.heap
        /\ threads[1].ret = OneAfterTheOther(1, 2).first.ret
        /\ threads[2].ret = OneAfterTheOther(1, 2).second.ret
        /\ threads[1].ret = OneAfterTheOther(2, 1).second.ret
        /\ threads[2].ret = OneAfterTheOther(2, 1).first.ret

\* both threads found the dictionary missing and built it, and both wrote
\* two traces of the same target, into different patches
C18_Witness ==
    /\ AllDone
    /\ \A i \in DOMAIN threads :
          /\ threads[i].built
          /\ threads[i].k = 2
          /\ ~Failed(threads[i].ret)
    /\ threads[1].target = threads[2].target
    /\ threads[1].patchidx # threads[2].patchidx
    /\ heap # PutStart.heap

(***************************************************************************)
(* Properties of put, of the dispatch and of a second setup (Spec)         *)
(***************************************************************************)
\* the index entries of the call c that address the cell ix
Listed(c, ix) ==
    {k \in 1..Len(c.risetimeidxs) :
        /\ ix[1] = IndexOf(c.target)
        /\ ix[2] = c.patchidx
        /\ ix[3] = c.risetimeidxs[k]
        /\ ix[4] = c.starttimeidxs[k]}

\* the row of the batch that belongs to index entry k (a one-row batch is
\* broadcast to every entry)
RowOf(entries, k) == IF entries.rows = 1 THEN 1 ELSE k

\* C21: a put call that returns has written row k of entries to the cell
\* (index(target), patchidx, risetimeidxs[k], starttimeidxs[k], :) for
\* every k (of a pair listed twice the later row stays), has left every
\* cell of another target, another patch or a pair not listed unchanged,
\* and has changed neither the sizing nor the stack mode nor any other
\* array
C21_PutFrame ==
    [][(Calls("put") /\ ~Failed(call'.ret)) =>
         LET old == heap[lib.gfmatrix]
             new == heap'[lib'.gfmatrix]
         IN  /\ lib'.gfmatrix = lib.gfmatrix
             /\ new.shape = old.shape
             /\ Introspection(lib', heap') = Introspection(lib, heap)
             /\ lib'.mode = lib.mode
             /\ \A r \in DOMAIN heap \ {lib.gfmatrix} : heap'[r] = heap[r]
             /\ \A ix \in DOMAIN old.data :
                   LET K == Listed(call', ix)
                   IN  IF K = {} THEN new.data[ix] = old.data[ix]
                       ELSE \A k \in K :
                               (\A m \in K : m <= k) =>
                                   new.data[ix]
                                     = EntryVal(call'.entries,
                                                RowOf(call'.entries, k),
                                                ix[5] + 1)]_vars

\* a two-row batch put at two different risetimes of the second patch of a
\* library of two patches, after init_optimization
C21_Witness ==
    /\ Called("put")
    /\ ~Failed(call.ret)
    /\ call.entries.rows = 2
    /\ call.risetimeidxs[1] # call.risetimeidxs[2]
    /\ call.patchidx = 1
    /\ heap[lib.gfmatrix].shape[2] = 2
    /\ lib.sgfmatrix # NoRef
    /\ heap[lib.gfmatrix].data[<<IndexOf(call.target), 0, 0, 0, 0>>] = 0
    /\ heap[lib.gfmatrix].data[<<IndexOf(call.target), 1, 0, 0, 0>>] > 0

\* the tensor of backend m: the eager array for 'numpy', the graph-resident
\* constant for 'theano'
BackendTensor(l, m) == IF m = "numpy" THEN l.gfmatrix ELSE l.sgfmatrix

\* C22: once a mode has been set, a stack call and a stack_all call that
\* return have read the tensor of the active backend: they return what the
\* computation gives on that tensor
C22_DispatchOnActiveBackend ==
    (lib # None /\ lib.stack_switch # None /\ call # None
        /\ ~Failed(call.ret)) =>
        LET arr == heap[BackendTensor(lib, lib.mode)]
            dtype == ModeDtype(lib.mode, floatX)
        IN  /\ call.op = "stack" =>
                  call.ret = StackArray(arr, dtype, IndexOf(call.target),
                                        call.patchidxs, call.risetimeidxs,
                                        call.starttimeidxs, call.slips,
                                        nsamples(lib, heap).value)
            /\ call.op = "stack_all" =>
                  call.ret = StackAllArray(arr, lib, heap, dtype,
                                           call.risetimeidxs,
                                           call.starttimeidxs, call.slips)

\* C26: whatever setup, put and init_optimization calls were made, a stack
\* call in 'numpy' mode whose arguments address cells of the tensor of the
\* most recent setup (the one put writes to) returns the linear combination
\* of the rows of that tensor
C26_NumpyStackReadsCurrentTensor ==
    (Called("stack") /\ lib.stack_switch # None /\ lib.mode = "numpy"
        /\ ValidStackCall(call, heap[lib.gfmatrix])) =>
        call.ret = StackArray(heap[lib.gfmatrix], "float64",
                              IndexOf(call.target), call.patchidxs,
                              call.risetimeidxs, call.starttimeidxs,
                              call.slips, nsamples(lib, heap).value)

(***************************************************************************)
(* Properties of the patch enumeration (SpecFault)                         *)
(***************************************************************************)
\* C23: a get_all_patches call that returns gives as many patches as the
\* ordering counts in total, and the patches of subfault i, in the order
\* the subfault yields them, at the positions get_patch_indexes(i) names
C23_AllPatchesFollowOrdering ==
    (Built /\ Asked("get_all_patches") /\ ~Failed(fcall.ret)) =>
        /\ Len(fcall.ret.value) = nsubpatches(fault)
        /\ \A i \in 0..nsubfaults(fault) - 1 :
              LET slc == get_patch_indexes(fault, i).value
                  own == get_subfault_patches(fault, i, fcall.datatype,
                                              fcall.component).value
              IN  /\ Len(own) = slc[2] - slc[1]
                  /\ SubSeq(fcall.ret.value, slc[1] + 1, slc[2]) = own

\* the patches of a geometry of two subfaults with different patch counts
C23_Witness ==
    /\ Built
    /\ Asked("get_all_patches")
    /\ ~Failed(fcall.ret)
    /\ nsubfaults(fault) = 2
    /\ fault.ordering.vmap[1].npatches # fault.ordering.vmap[2].npatches
    /\ Len(fcall.ret.value)
         = fault.ordering.vmap[1].npatches + fault.ordering.vmap[2].npatches
    /\ fcall.ret.value[1].parent # fcall.ret.value[Len(fcall.ret.value)].parent

(***************************************************************************)
(* The rupture-time solver (fast sweeping on the patch grid of a subfault) *)
(* Arrival times are integers in a fixed unit; slowness is kept in halves  *)
(* (2 / velocity) and the patch size in halves of a length unit.           *)
(***************************************************************************)
\* the convergence tolerance of the solver, and the sweep-count ceiling
\* it uses when its caller names none
Tolerance == 1

SweepCeiling == 3

\* the arrival time of a cell no wavefront has reached yet
Unreached == 100000000

Max(a, b) == IF a > b THEN a ELSE b

\* the cells of a grid of nd rows (dip) and ns columns (strike)
Cells(nd, ns) == (0..nd - 1) \X (0..ns - 1)

\* a 2-d array: shape <<rows, columns>> and the value of every cell
Field(shape, data) == [shape |-> shape, data |-> data]

InField(a, c) == c[1] < a.shape[1] /\ c[2] < a.shape[2]

\* the largest r with r * r <= n, for n <= bound * bound
ISqrt(n, bound) == CHOOSE r \in 0..bound : r * r <= n /\ n < (r + 1) * (r + 1)

\* the smallest arrival time among the cells of cs that lie in the grid
MinOver(T, cs) ==
    LET inside == {c \in cs : c \in DOMAIN T}
    IN  IF inside = {} THEN Unreached
        ELSE CHOOSE t \in {T[c] : c \in inside} :
                 \A c \in inside : t <= T[c]

\* the only element of a set of one element
The(S) == CHOOSE x \in S : TRUE

\* the candidate arrival time from the smallest neighbour along dip (a) and
\* along strike (b), with f = slowness * patch size
Candidate(a, b, f) ==
    IF Max(a, b) - Min(a, b) >= f THEN Min(a, b) + f
    ELSE (a + b + ISqrt(2 * f * f - (a - b) * (a - b), 2 * f)) \div 2

\* the local finite-difference eikonal update of cell c from its upwind
\* neighbours
Upwind(T, S, h, c) ==
    The({Candidate(a, b, S.data[c] * h) :
            a \in {MinOver(T, {<<c[1] - 1, c[2]>>, <<c[1] + 1, c[2]>>})},
            b \in {MinOver(T, {<<c[1], c[2] - 1>>, <<c[1], c[2] + 1>>})}})

\* the cells of the grid in the order of one sweep: rows increasing when
\* di = 1 and decreasing when di = -1, columns likewise with dj
SweepOrder(nd, ns, di, dj) ==
    [k \in 1..nd * ns |->
        LET i == (k - 1) \div ns
            j == (k - 1) % ns
        IN  <<IF di = 1 THEN i ELSE nd - 1 - i,
              IF dj = 1 THEN j ELSE ns - 1 - j>>]

\* the arrival times after cell c was visited: every cell but the
\* nucleation cell keeps the minimum of its time and the candidate
Visit(T, S, h, nuc, c) ==
    IF c = nuc THEN T ELSE [T EXCEPT ![c] = Min(T[c], Upwind(T, S, h, c))]

\* one sweep: the cells are visited in order, each using the cells
\* updated before it
RECURSIVE SweepLoop(_, _, _, _, _, _)
SweepLoop(T, S, h, nuc, order, k) ==
    IF k > Len(order) THEN T
    ELSE The({SweepLoop(T1, S, h, nuc, order, k + 1) :
                 T1 \in {Visit(T, S, h, nuc, c) : c \in {order[k]}}})

\* the four axis-order/direction combinations
Directions == <<<<1, 1>>, <<1, -1>>, <<-1, 1>>, <<-1, -1>>>>

\* one full sweep cycle: the four sweeps one after the other
RECURSIVE SweepCycle(_, _, _, _, _, _, _)
SweepCycle(T, S, h, nuc, nd, ns, d) ==
    IF d > Len(Directions) THEN T
    ELSE The({SweepCycle(T1, S, h, nuc, nd, ns, d + 1) :
                 T1 \in {SweepLoop(T, S, h, nuc, order, 1) :
                            order \in {SweepOrder(nd, ns, Directions[d][1],
                                                  Directions[d][2])}}})

\* the maximum cell-wise update between two fields of one grid
MaxUpdate(Old, New) ==
    CHOOSE u \in {Old[c] - New[c] : c \in DOMAIN Old} :
        \A c \in DOMAIN Old : Old[c] - New[c] <= u

\* the start of get_rupture_times_numpy: a grid of n_patch_dip rows and
\* n_patch_strike columns, unreached but for the nucleation cell; the
\* sweeps read the slowness of every cell of the grid
get_rupture_times_numpy(S, h, n_patch_strike, n_patch_dip, nuc_x, nuc_y, ceiling) ==
    IF ~(nuc_y < n_patch_dip /\ nuc_x < n_patch_strike)
    THEN [pc |-> "raised", ret |-> Raised("IndexError")]
    ELSE IF \E c \in Cells(n_patch_dip, n_patch_strike) : ~InField(S, c)
    THEN [pc |-> "raised", ret |-> Raised("IndexError")]
    ELSE [pc |-> "sweeping", slowness |-> S, h |-> h,
          nuc |-> <<nuc_y, nuc_x>>,
          shape |-> <<n_patch_dip, n_patch_strike>>,
          times |-> [c \in Cells(n_patch_dip, n_patch_strike) |->
                        IF c = <<nuc_y, nuc_x>> THEN 0 ELSE Unreached],
          sweeps |-> 0, ceiling |-> ceiling, update |-> Unreached,
          ret |-> None]

\* one more full cycle of a solver that is sweeping
cycle(s) ==
    The({[s EXCEPT !.times = T1, !.sweeps = s.sweeps + 1,
                   !.update = MaxUpdate(s.times, T1)] :
            T1 \in {SweepCycle(s.times, s.slowness, s.h, s.nuc, s.shape[1],
                               s.shape[2], 1)}})

\* the solver stops after a cycle that converged, or at the ceiling
converged(s) == s.sweeps > 0 /\ s.update < Tolerance

stops(s) == converged(s) \/ s.sweeps >= s.ceiling

\* the field the solver returns
returned(s) ==
    [s EXCEPT !.pc = "returned", !.ret = Ret(Field(s.shape, s.times))]

(***************************************************************************)
(* get_subfault_starttime_bound and the construct_gf_linear functions      *)
(***************************************************************************)
\* rupture velocities of the patches, as a flat array
Velocities == {1, 2}

\* rupture_velocities.reshape((npw, npl)), then 1. / it: the slowness of
\* cell (i, j) comes from element i * npl + j (row-major), in halves
Slownesses(rupture_velocities, npw, npl) ==
    Field(<<npw, npl>>,
          [c \in Cells(npw, npl) |->
              2 \div rupture_velocities[c[1] * npl + c[2] + 1]])

\* subfault.width / npw, in halves of the length unit
PatchSize(width, npw) == (2 * width) \div npw

\* mutant: the solver asked for a grid of npl rows and npw columns
get_subfault_starttime_bound_swapped(f, index, rupture_velocities) ==
    LET pm == ListIndex(f.ordering.vmap, index)
    IN  IF Failed(pm) THEN [pc |-> "not called", ret |-> pm]
        ELSE LET npw == pm.value.shp[1]
                 npl == pm.value.shp[2]
                 subfault == get_subfault(f, index, "seismic",
                                          f.components[1])
             IN  IF Len(rupture_velocities) # npw * npl
                 THEN [pc |-> "not called", ret |-> Raised("ValueError")]
                 ELSE IF Failed(subfault)
                 THEN [pc |-> "not called", ret |-> subfault]
                 ELSE get_rupture_times_numpy(
                          Slownesses(rupture_velocities, npw, npl),
                          PatchSize(subfault.value.width, npw),
                          npw, npl, 0, 0, SweepCeiling)

\* get_subfault_starttime_bound up to its call of the solver: the solver
\* as it starts, or the exception raised before the solver is called
get_subfault_starttime_bound(f, index, rupture_velocities) ==
    LET pm == ListIndex(f.ordering.vmap, index)
    IN  IF Failed(pm) THEN [pc |-> "not called", ret |-> pm]
        ELSE LET npw == pm.value.shp[1]
                 npl == pm.value.shp[2]
                 subfault == get_subfault(f, index, "seismic",
                                          f.components[1])
             IN  IF Len(rupture_velocities) # npw * npl
                 THEN [pc |-> "not called", ret |-> Raised("ValueError")]
                 ELSE IF Failed(subfault)
                 THEN [pc |-> "not called", ret |-> subfault]
                 ELSE get_rupture_times_numpy(
                          Slownesses(rupture_velocities, npw, npl),
                          PatchSize(subfault.value.width, npw),
                          npl, npw, 0, 0, SweepCeiling)

\* start_times.max(): the largest arrival time of the returned field
FieldMax(a) ==
    CHOOSE t \in {a.data[c] : c \in DOMAIN a.data} :
        \A c \in DOMAIN a.data : a.data[c] <= t

\* int(round(b / step)) for b >= 0 and step > 0.  A tie is rounded away
\* from zero by python 2 and to the even neighbour by python 3: both
\* interpreters run this code
RoundHalf(b, step) ==
    LET q == b \div step
        r == b % step
    IN  IF 2 * r < step THEN {q}
        ELSE IF 2 * r > step THEN {q + 1}
        ELSE {q + 1, IF q % 2 = 0 THEN q ELSE q + 1}

\* num.arange(n)
arange(n) == [k \in 1..n |-> k - 1]

\* (starttimeidxs * starttimesteps).tolist()
StartTimes(starttimeidxs, starttimesteps) ==
    [k \in 1..Len(starttimeidxs) |-> starttimeidxs[k] * starttimesteps]

\* the loop over varnames of seis_construct_gf_linear: a library sized for
\* every component and the patch indexes its patch loop enumerates (the
\* body of the patch loop is unfinished in the source)
RECURSIVE SeisVarLoop(_, _, _, _, _, _, _, _, _)
SeisVarLoop(f, varnames, k, nt, np, nr, ns, nsamp, libs) ==
    IF k > Len(varnames) THEN [libs |-> libs, ret |-> Ret(None)]
    ELSE LET gfs == setup(NewLibrary(SubSeq(TargetNames, 1, nt), nt), <<>>,
                          nt, np, nr, ns, nsamp)
             ps == get_all_patches(f, "seismic", varnames[k])
         IN  IF Failed(gfs.ret) THEN [libs |-> libs, ret |-> gfs.ret]
             ELSE IF Failed(ps) THEN [libs |-> libs, ret |-> ps]
             ELSE SeisVarLoop(f, varnames, k + 1, nt, np, nr, ns, nsamp,
                     Append(libs,
                            [component |-> varnames[k],
                             shape |-> Shape(gfs.lib, gfs.heap),
                             patchidxs |-> arange(Len(ps.value))]))

\* seis_construct_gf_linear from the start-time bound on; n is the value
\* of int(round(start_times.max() / starttimesteps))
seis_construct_gf_linear(f, n, starttimesteps, nt, nr, nsamp, varnames) ==
    LET starttimeidxs == arange(n)
        starttimes == StartTimes(starttimeidxs, starttimesteps)
        ns == Len(starttimes)
        np == nsubfaults(f)
        r == SeisVarLoop(f, varnames, 1, nt, np, nr, ns, nsamp, <<>>)
    IN  [starttimes |-> starttimes, nstarttimes |-> ns,
         libs |-> r.libs, ret |-> r.ret]

\* heart.geo_synthetics and the projection on the line of sight belong to
\* external collaborators: the GF of a patch is known by its patch
GeoGfs(sources) == [k \in 1..Len(sources) |-> [gf_of |-> sources[k]]]

\* the loop over varnames of geo_construct_gf_linear: the list gfs of the
\* component handled last, or the exception
RECURSIVE GeoVarLoop(_, _, _, _)
GeoVarLoop(f, varnames, k, gfs) ==
    IF k > Len(varnames) THEN Ret(gfs)
    ELSE LET ps == get_all_patches(f, "geodetic", varnames[k])
         IN  IF Failed(ps) THEN ps
             ELSE GeoVarLoop(f, varnames, k + 1, GeoGfs(ps.value))

\* geo_construct_gf_linear: what it returns or raises, whether it computed
\* GFs, and the content of outpath afterwards.  out_gfs[var] = gfs follows
\* the loop: var and gfs are the ones of the last round, and unbound when
\* varnames is empty
geo_construct_gf_linear(f, varnames, force, outpath) ==
    IF outpath # None /\ ~force
    THEN [computed |-> FALSE, ret |-> Ret(None), outpath |-> outpath]
    ELSE LET gfs == GeoVarLoop(f, varnames, 1, <<>>)
         IN  IF Failed(gfs)
             THEN [computed |-> TRUE, ret |-> gfs, outpath |-> outpath]
             ELSE IF Len(varnames) = 0
             THEN [computed |-> TRUE, ret |-> Raised("NameError"),
                   outpath |-> outpath]
             ELSE [computed |-> TRUE, ret |-> Ret(None),
                   outpath |->
                       [v \in {varnames[Len(varnames)]} |-> gfs.value]]

(***************************************************************************)
(* State machine: construction of the GF libraries of a registered fault   *)
(***************************************************************************)
\* the sampling steps of the start-time axis, in the unit of the solver
StartTimeSteps == {10, 40}

\* the lists of slip components the caller optimizes for
ConstructVarnames == {<<>>, <<"Uparr">>, <<"Uparr", "Uperp">>}

\* the sources registered by hand for one component
SourcesOf(n, component) ==
    [i \in 1..n |-> ExtSource(i, slip_directions[component].rake)]

\* a geometry with its sources registered for a datatype, all components
RECURSIVE Registered(_, _, _)
Registered(f, datatype, k) ==
    IF k > Len(f.components) THEN f
    ELSE Registered(setup_subfaults(f, datatype, f.components[k],
                                    SourcesOf(nsubfaults(f), f.components[k]),
                                    FALSE).fault,
                    datatype, k + 1)

\* the patch counts of the subfaults along one axis
AxisCounts == UNION {[1..n -> 1..MaxCount] : n \in 1..MaxSubfaults}

InitConstruct ==
    /\ \E npls \in AxisCounts :
          \E npws \in [DOMAIN npls -> 1..MaxCount] :
              /\ fault = Registered(
                            Registered(
                                FaultGeometry(<<"geodetic", "seismic">>,
                                              <<"Uparr", "Uperp">>,
                                              FaultOrdering(npls, npws)),
                                "geodetic", 1),
                            "seismic", 1)
              /\ fin = [op |-> "FaultOrdering", npls |-> npls, npws |-> npws,
                        ret |-> Ret("FaultOrdering")]
    /\ fcall = None
    /\ NoLibrary
    /\ solver = None
    /\ build = None
    /\ files = [outpath |-> None]
    /\ runner = None

\* a direct call of the solver, for any slowness field and nucleation cell
GetRuptureTimes ==
    /\ build = None
    /\ solver = None
    /\ \E nd \in 1..MaxCount, ns \in 1..MaxCount, ceiling \in 1..SweepCeiling :
          \E data \in [Cells(nd, ns) -> {1, 2}], nuc \in Cells(nd, ns) :
              solver' = get_rupture_times_numpy(Field(<<nd, ns>>, data), 7,
                                                ns, nd, nuc[2], nuc[1],
                                                ceiling)
    /\ UNCHANGED <<faultvars, libvars, build, files, runner>>

\* seis_construct_gf_linear up to the call of the solver
SeisConstructGfLinear ==
    /\ build = None
    /\ solver = None
    /\ \E n \in 1..MaxCount * MaxCount, starttimesteps \in StartTimeSteps,
          nt \in 1..MaxTargets, varnames \in ConstructVarnames :
          \E velocities \in [1..n -> Velocities] :
              LET s == get_subfault_starttime_bound(fault, 0, velocities)
              IN  /\ solver' = s
                  /\ build' = [op |-> "seis_construct_gf_linear",
                               pc |-> IF s.pc = "sweeping" THEN "start_times"
                                      ELSE "done",
                               velocities |-> velocities,
                               starttimesteps |-> starttimesteps,
                               ntargets |-> nt, varnames |-> varnames,
                               ret |-> s.ret]
    /\ UNCHANGED <<faultvars, libvars, files, runner>>

\* one full sweep cycle
SolverCycle ==
    /\ solver # None
    /\ solver.pc = "sweeping"
    /\ ~stops(solver)
    /\ solver' = cycle(solver)
    /\ UNCHANGED <<faultvars, libvars, build, files, runner>>

SolverReturn ==
    /\ solver # None
    /\ solver.pc = "sweeping"
    /\ stops(solver)
    /\ solver' = returned(solver)
    /\ UNCHANGED <<faultvars, libvars, build, files, runner>>

\* seis_construct_gf_linear from the returned start-time bound on
SeisSize ==
    /\ build # None
    /\ build.pc = "start_times"
    /\ solver.pc = "returned"
    /\ LET bound == FieldMax(solver.ret.value)
       IN  \E n \in RoundHalf(bound, build.starttimesteps) :
               LET r == seis_construct_gf_linear(fault, n,
                            build.starttimesteps, build.ntargets,
                            MaxRisetimes, MaxSamples, build.varnames)
               IN  build' = [op |-> build.op, pc |-> "done",
                             velocities |-> build.velocities,
                             starttimesteps |-> build.starttimesteps,
                             ntargets |-> build.ntargets,
                             varnames |-> build.varnames,
                             bound |-> bound,
                             starttimes |-> r.starttimes,
                             nstarttimes |-> r.nstarttimes,
                             libs |-> r.libs, ret |-> r.ret]
    /\ UNCHANGED <<faultvars, libvars, solver, files, runner>>

GeoConstructGfLinear ==
    /\ build = None
    /\ solver = None
    /\ \E varnames \in ConstructVarnames, force \in BOOLEAN :
          LET r == geo_construct_gf_linear(fault, varnames, force,
                                           files.outpath)
          IN  /\ build' = [op |-> "geo_construct_gf_linear", pc |-> "done",
                           varnames |-> varnames, force |-> force,
                           before |-> files.outpath,
                           computed |-> r.computed, ret |-> r.ret]
              /\ files' = [files EXCEPT !.outpath = r.outpath]
    /\ UNCHANGED <<faultvars, libvars, solver, runner>>

\* the caller takes the result of the construction
ReturnBuild ==
    /\ build # None
    /\ build.pc = "done"
    /\ build' = None
    /\ solver' = None
    /\ UNCHANGED <<faultvars, libvars, files, runner>>

\* the caller takes the result of a direct call of the solver
ReturnSolver ==
    /\ build = None
    /\ solver # None
    /\ solver.pc # "sweeping"
    /\ solver' = None
    /\ UNCHANGED <<faultvars, libvars, build, files, runner>>

\* a direct call of get_subfault_starttime_bound, up to the solver
GetSubfaultStarttimeBound ==
    /\ build = None
    /\ solver = None
    /\ \E index \in 0..MaxSubfaults, n \in 1..MaxCount * MaxCount :
          \E velocities \in [1..n -> Velocities] :
              solver' = get_subfault_starttime_bound(fault, index, velocities)
    /\ UNCHANGED <<faultvars, libvars, build, files, runner>>

NextConstruct ==
    \/ SeisConstructGfLinear
    \/ SolverCycle
    \/ SolverReturn
    \/ SeisSize
    \/ GeoConstructGfLinear
    \/ ReturnBuild

SpecConstruct == InitConstruct /\ [][NextConstruct]_vars

NextSolver ==
    \/ GetRuptureTimes
    \/ GetSubfaultStarttimeBound
    \/ SolverCycle
    \/ SolverReturn
    \/ ReturnSolver

\* the solver is sequential code: once called it keeps running
SpecSolver ==
    /\ InitConstruct
    /\ [][NextSolver]_vars
    /\ WF_vars(SolverCycle)
    /\ WF_vars(SolverReturn)

(***************************************************************************)
(* Properties of the construction (SpecConstruct)                          *)
(***************************************************************************)
Constructed(op) == build # None /\ build.op = op /\ build.pc = "done"

\* C24: every patch index enumerated from get_all_patches('seismic', var)
\* is a valid index of the patch axis of the library sized for var
C24_PatchAxisHoldsAllPatches ==
    (Constructed("seis_construct_gf_linear") /\ "libs" \in DOMAIN build) =>
        \A k \in 1..Len(build.libs) :
            \A m \in 1..Len(build.libs[k].patchidxs) :
                build.libs[k].patchidxs[m] < build.libs[k].shape[2]

\* C25: a solver that was called with a slowness field and a nucleation
\* cell comes to return a field of the shape of the slowness field, after
\* a cycle that converged or at the ceiling of sweeps; it never raises
C25_SolverTerminates ==
    (solver # None /\ solver.pc \in {"sweeping", "raised"}) ~>
        (/\ solver # None
         /\ solver.pc = "returned"
         /\ solver.ret.value.shape = solver.slowness.shape
         /\ DOMAIN solver.ret.value.data
              = Cells(solver.slowness.shape[1], solver.slowness.shape[2])
         /\ (converged(solver) \/ solver.sweeps = solver.ceiling))

\* a solver that returned after a converged cycle on a heterogeneous field
\* of two rows and two columns
C25_Witness ==
    /\ solver # None
    /\ solver.pc = "returned"
    /\ converged(solver)
    /\ solver.sweeps > 1
    /\ solver.slowness.shape = <<2, 2>>
    /\ solver.slowness.data[<<0, 1>>] # solver.slowness.data[<<1, 0>>]
    /\ solver.ret.value.data[<<1, 1>>] > solver.ret.value.data[<<0, 1>>]

\* a solver that returned at the ceiling, after a cycle that still updated
C25_WitnessCeiling ==
    /\ solver # None
    /\ solver.pc = "returned"
    /\ ~converged(solver)
    /\ solver.sweeps = solver.ceiling

\* C27: the start-time grid of a construction that came to size its
\* libraries holds start time 0, so nstarttimes >= 1
C27_StartTimeGridNotEmpty ==
    (Constructed("seis_construct_gf_linear") /\ "libs" \in DOMAIN build) =>
        /\ build.nstarttimes >= 1
        /\ build.starttimes[1] = 0

\* C28: a geo_construct_gf_linear call that finds outpath and is not forced
\* computes and writes nothing; one that computes and returns has dumped a
\* dictionary with the GFs of every component of varnames
C28_OneEntryPerComponent ==
    Constructed("geo_construct_gf_linear") =>
        IF build.before # None /\ ~build.force
        THEN ~build.computed /\ files.outpath = build.before
        ELSE ~Failed(build.ret) =>
                /\ DOMAIN files.outpath = Range(build.varnames)
                /\ \A v \in Range(build.varnames) :
                      files.outpath[v]
                        = GeoGfs(get_all_patches(fault, "geodetic", v).value)

(***************************************************************************)
(* PsGrnRunner.run (src/src/psgrn.py): one call, statement by statement,   *)
(* with its child process and the SIGINT handler it installs               *)
(***************************************************************************)
MaxSigints == 2         \* SIGINT signals delivered during one call

\* what the child reports when it exits by itself
ExitKinds == {"ok", "nonzero", "stderr", "error in output"}

\* remove_if_exists(fn, force): the file afterwards, or the exception
remove_if_exists(exists, force) ==
    IF exists
    THEN IF force THEN [exists |-> FALSE, ret |-> Ret(None)]
         ELSE [exists |-> exists, ret |-> Raised("CannotCreate")]
    ELSE [exists |-> exists, ret |-> Ret(None)]

\* the call as it starts: the working directory is the caller's, SIGINT has
\* its original handler, proc is not bound yet
NewRun(force, startable) ==
    [pc |-> "remove_if_exists", force |-> force, startable |-> startable,
     cwd |-> "wd", old_wd |-> "unbound", handler |-> "original",
     proc |-> "unbound", status |-> "unbound", interrupted |-> FALSE,
     sigints |-> 0, sigterm |-> FALSE, stray |-> FALSE, failed |-> "no",
     pending |-> "no", ret |-> None]

\* the exception leaves run
Raise(r, kind) == [r EXCEPT !.pc = "done", !.ret = Raised(kind)]

\* signal_handler(signum, frame) when os.kill succeeds: the child is sent
\* SIGTERM and the flag list gets an entry
signal_handler(r) ==
    [r EXCEPT !.sigterm = TRUE, !.interrupted = TRUE,
              !.sigints = r.sigints + 1]

\* an exception raised by the handler surfaces at the statement the main
\* thread is executing: inside the try block the finally clause still
\* runs, inside the finally clause (before signal.signal has acted) the
\* exception leaves run at once
HandlerRaises(r, kind) ==
    LET r1 == [r EXCEPT !.failed = kind, !.sigints = r.sigints + 1]
    IN  IF r.pc = "finally" THEN Raise(r1, kind)
        ELSE [r1 EXCEPT !.pc = "finally", !.pending = kind]

\* the errmess checks on the collected output
errmess(status) == status # "ok"

InitRunner ==
    /\ NoFault
    /\ NoLibrary
    /\ solver = None
    /\ build = None
    /\ files \in [input : BOOLEAN]
    /\ runner = None

Untouched == UNCHANGED <<faultvars, libvars, solver, build>>

\* runner.run(config, force)
Run ==
    /\ runner = None
    /\ \E force \in BOOLEAN, startable \in BOOLEAN :
          runner' = NewRun(force, startable)
    /\ UNCHANGED files
    /\ Untouched

At(pc) == runner # None /\ runner.pc = pc

\* remove_if_exists(input_fn, force=force)
RemoveIfExists ==
    /\ At("remove_if_exists")
    /\ LET r == remove_if_exists(files.input, runner.force)
       IN  /\ files' = [files EXCEPT !.input = r.exists]
           /\ runner' = IF Failed(r.ret) THEN Raise(runner, r.ret.raised)
                        ELSE [runner EXCEPT !.pc = "write"]
    /\ Untouched

\* f = open(input_fn, 'w'); f.write(input_str); f.close()
WriteInput ==
    /\ At("write")
    /\ files' = [files EXCEPT !.input = TRUE]
    /\ runner' = [runner EXCEPT !.pc = "chdir"]
    /\ Untouched

\* old_wd = os.getcwd(); os.chdir(self.outdir)
Chdir ==
    /\ At("chdir")
    /\ runner' = [runner EXCEPT !.old_wd = runner.cwd, !.cwd = "outdir",
                                !.pc = "signal"]
    /\ UNCHANGED files
    /\ Untouched

\* original = signal.signal(signal.SIGINT, signal_handler)
InstallHandler ==
    /\ At("signal")
    /\ runner' = [runner EXCEPT !.handler = "signal_handler", !.pc = "Popen"]
    /\ UNCHANGED files
    /\ Untouched

\* proc = Popen(program, ...): the child runs, or OSError is caught
Popen ==
    /\ At("Popen")
    /\ runner' = IF runner.startable
                 THEN [runner EXCEPT !.proc = "running",
                                     !.pc = "communicate"]
                 ELSE [runner EXCEPT !.pc = "except"]
    /\ UNCHANGED files
    /\ Untouched

\* except OSError: os.chdir(old_wd); raise PsGrnError
ExceptOSError ==
    /\ At("except")
    /\ runner' = [runner EXCEPT !.cwd = runner.old_wd, !.pc = "finally",
                                !.pending = "PsGrnError"]
    /\ UNCHANGED files
    /\ Untouched

\* the child exits: by itself, or killed by the SIGTERM it was sent
ChildExits ==
    /\ runner # None
    /\ runner.proc = "running"
    /\ \E status \in ExitKinds :
          runner' = [runner EXCEPT !.proc = "exited",
                                   !.status = IF runner.sigterm
                                              THEN "nonzero" ELSE status]
    /\ UNCHANGED files
    /\ Untouched

\* proc.communicate('input\n') returns once the child has exited, and has
\* waited for it
Communicate ==
    /\ At("communicate")
    /\ runner.proc = "exited"
    /\ runner' = [runner EXCEPT !.proc = "reaped", !.pc = "unpack"]
    /\ UNCHANGED files
    /\ Untouched

\* (output_str, error_str) = ...: the last statement of the try block
Unpack ==
    /\ At("unpack")
    /\ runner' = [runner EXCEPT !.pc = "finally"]
    /\ UNCHANGED files
    /\ Untouched

\* finally: signal.signal(signal.SIGINT, original); a pending exception
\* goes on afterwards
Finally ==
    /\ At("finally")
    /\ LET r == [runner EXCEPT !.handler = "original"]
       IN  runner' = IF r.pending # "no" THEN Raise(r, r.pending)
                     ELSE [r EXCEPT !.pc = "if interrupted"]
    /\ UNCHANGED files
    /\ Untouched

\* if interrupted: raise KeyboardInterrupt()
IfInterrupted ==
    /\ At("if interrupted")
    /\ runner' = IF runner.interrupted
                 THEN Raise(runner, "KeyboardInterrupt")
                 ELSE [runner EXCEPT !.pc = "errmess"]
    /\ UNCHANGED files
    /\ Untouched

\* the errmess checks: os.chdir(old_wd) and PsGrnError, or the normal end
\* with os.chdir(old_wd)
CheckOutput ==
    /\ At("errmess")
    /\ LET r == [runner EXCEPT !.cwd = runner.old_wd]
       IN  runner' = IF errmess(runner.status) THEN Raise(r, "PsGrnError")
                     ELSE [r EXCEPT !.pc = "done", !.ret = Ret(None)]
    /\ UNCHANGED files
    /\ Untouched

\* SIGINT arrives while signal_handler is installed.  proc is a variable of
\* run that the handler reads: unbound before Popen has returned.  After
\* communicate has waited for the child its pid is free: os.kill raises
\* OSError, or signals whatever process got the pid since.
Sigint ==
    /\ runner # None
    /\ runner.pc # "done"
    /\ runner.handler = "signal_handler"
    /\ runner.sigints < MaxSigints
    /\ \/ /\ runner.proc = "unbound"
          /\ runner' = HandlerRaises(runner, "NameError")
       \/ /\ runner.proc \in {"running", "exited"}
          /\ runner' = signal_handler(runner)
       \/ /\ runner.proc = "reaped"
          /\ \/ runner' = HandlerRaises(runner, "OSError")
             \/ runner' = [signal_handler(runner) EXCEPT !.stray = TRUE,
                                                         !.sigterm = runner.sigterm]
    /\ UNCHANGED files
    /\ Untouched

\* the caller has the outcome of run
ReturnRun ==
    /\ At("done")
    /\ runner' = None
    /\ UNCHANGED files
    /\ Untouched

NextRunner ==
    \/ Run
    \/ RemoveIfExists
    \/ WriteInput
    \/ Chdir
    \/ InstallHandler
    \/ Popen
    \/ ExceptOSError
    \/ ChildExits
    \/ Communicate
    \/ Unpack
    \/ Finally
    \/ IfInterrupted
    \/ CheckOutput
    \/ Sigint
    \/ ReturnRun

SpecRunner == InitRunner /\ [][NextRunner]_vars

(***************************************************************************)
(* Properties of PsGrnRunner.run (SpecRunner)                              *)
(***************************************************************************)
Ran == runner # None /\ runner.pc = "done"

\* C29: when run has ended, by returning or by raising one of the
\* exceptions it raises itself (input file exists, program cannot be
\* started, interrupted, psgrn reports an error), the working directory is
\* the one of the caller; runs in which the handler failed or signalled a
\* stray process are left aside
C29_WorkingDirectoryRestored ==
    (Ran /\ runner.failed = "no" /\ ~runner.stray) => runner.cwd = "wd"

\* C30: when run has ended after a SIGINT that arrived while its handler
\* was installed, the handler has not failed, has sent SIGTERM to the child
\* if there was one running, the original handler is back and run has
\* raised KeyboardInterrupt
C30_SigintHandled ==
    (Ran /\ runner.sigints > 0) =>
        /\ runner.failed = "no"
        /\ ~runner.stray
        /\ runner.handler = "original"
        /\ runner.ret = Raised("KeyboardInterrupt")

====
